---------------------------- MODULE Spec2Model ----------------------------
(***************************************************************************)
(* Model of the uSMU driver (MatzeS/usmu): the transport session           *)
(* (src/src/lib.rs), the command catalog (src/src/commands.rs) and the IV   *)
(* sweep (src/src/bin/record_iv_curve.rs).                                  *)
(*                                                                         *)
(* Voltages and currents are single-precision floats in the program         *)
(* (lib.rs:22-23).  A float is modelled as a pair <<m, e>> of integers      *)
(* standing for m * 2^e, normalised so that either m = 0 and e = 0, or      *)
(* 2^23 <= |m| < 2^24.  The arithmetic below rounds to nearest, ties to     *)
(* even, as IEEE-754 binary32 does.  Subnormals, infinities, NaN and the    *)
(* sign of zero are not represented: every value the model draws is a       *)
(* normal number far from the exponent limits.                              *)
(***************************************************************************)
EXTENDS Integers, Sequences, FiniteSets, TLC

\* ------------------------------------------------------------------ f32

\* Significand width of f32 (uom::si::f32, lib.rs:22).
MANT_BITS == 24

Abs(x) == IF x < 0 THEN -x ELSE x

Sgn(x) == IF x < 0 THEN -1 ELSE 1

RECURSIVE BitLen(_)
\* Number of bits of the natural number n (0 for n = 0).
BitLen(n) == IF n = 0 THEN 0 ELSE 1 + BitLen(n \div 2)

FZero == <<0, 0>>

\* Round the magnitude (M + s) * 2^e, where M is a natural number and
\* 0 < s < 1 when sticky holds (s = 0 otherwise), to MANT_BITS bits, nearest
\* with ties to even.  The result is the normalised magnitude <<m, e'>>.
\* A sticky magnitude always arrives with at least one bit to drop.
RoundMag(M, e, sticky) ==
    IF M = 0 THEN FZero
    ELSE LET k == BitLen(M) - MANT_BITS
         IN IF k <= 0
            THEN <<M * 2^(-k), e + k>>
            ELSE LET q    == M \div 2^k
                     r    == M % 2^k
                     half == 2^(k - 1)
                     up   == \/ r > half
                             \/ r = half /\ sticky
                             \/ r = half /\ ~sticky /\ q % 2 = 1
                     q1   == IF up THEN q + 1 ELSE q
                 IN IF q1 = 2^MANT_BITS
                    THEN <<2^(MANT_BITS - 1), e + k + 1>>
                    ELSE <<q1, e + k>>

\* The magnitude mag with the sign of s.
WithSign(s, mag) == <<s * mag[1], mag[2]>>

\* i as f32 (F::from(i), exact for |i| < 2^24).
FromInt(i) == WithSign(Sgn(i), RoundMag(Abs(i), 0, FALSE))

FNeg(a) == <<-a[1], a[2]>>

FAbs(a) == <<Abs(a[1]), a[2]>>

\* a < b on normalised floats.
FLt(a, b) ==
    IF a[1] = 0 THEN b[1] > 0
    ELSE IF b[1] = 0 THEN a[1] < 0
    ELSE IF a[1] < 0 /\ b[1] > 0 THEN TRUE
    ELSE IF a[1] > 0 /\ b[1] < 0 THEN FALSE
    ELSE IF a[1] > 0
         THEN a[2] < b[2] \/ (a[2] = b[2] /\ a[1] < b[1])
         ELSE a[2] > b[2] \/ (a[2] = b[2] /\ a[1] < b[1])

FLe(a, b) == a = b \/ FLt(a, b)

\* a + b, correctly rounded.  Six extra low-order bits are carried through
\* the addition before rounding.
FAdd(a, b) ==
    IF a[1] = 0 THEN b
    ELSE IF b[1] = 0 THEN a
    ELSE LET big   == IF a[2] >= b[2] THEN a ELSE b
             small == IF a[2] >= b[2] THEN b ELSE a
             d     == big[2] - small[2]
             B     == Abs(big[1]) * 64
             s6    == Abs(small[1]) * 64
             S     == IF d > 30 THEN 0 ELSE s6 \div 2^d
             st    == IF d > 30 THEN TRUE ELSE s6 % 2^d # 0
             same  == Sgn(big[1]) = Sgn(small[1])
             e     == big[2] - 6
         IN IF same
            THEN WithSign(Sgn(big[1]), RoundMag(B + S, e, st))
            ELSE IF B >= S
                 THEN WithSign(Sgn(big[1]),
                               RoundMag(IF st THEN B - S - 1 ELSE B - S, e, st))
                 ELSE WithSign(Sgn(small[1]), RoundMag(S - B, e, FALSE))

FSub(a, b) == FAdd(a, FNeg(b))

\* a * b, correctly rounded: the 48-bit product of the significands is
\* formed from 12-bit halves.
FMul(a, b) ==
    IF a[1] = 0 \/ b[1] = 0 THEN FZero
    ELSE LET x    == Abs(a[1])
             y    == Abs(b[1])
             x1   == x \div 4096
             x0   == x % 4096
             y1   == y \div 4096
             y0   == y % 4096
             mid  == x1 * y0 + x0 * y1
             lowT == (mid % 4096) * 4096 + x0 * y0
             H    == x1 * y1 + mid \div 4096 + lowT \div 2^24
             L    == lowT % 2^24
             M    == H * 64 + L \div 2^18
             st   == L % 2^18 # 0
         IN WithSign(Sgn(a[1]) * Sgn(b[1]),
                     RoundMag(M, a[2] + b[2] + 18, st))

RECURSIVE DivBits(_, _, _, _)
\* k further quotient bits of r / d by long division (0 <= r < d):
\* <<quotient, remainder>>.
DivBits(r, d, q, k) ==
    IF k = 0 THEN <<q, r>>
    ELSE IF 2 * r >= d
         THEN DivBits(2 * r - d, d, 2 * q + 1, k - 1)
         ELSE DivBits(2 * r, d, 2 * q, k - 1)

\* a / b (b # 0), correctly rounded.
FDiv(a, b) ==
    IF a[1] = 0 THEN FZero
    ELSE LET x  == Abs(a[1])
             y  == Abs(b[1])
             qr == DivBits(x % y, y, x \div y, MANT_BITS + 4)
         IN WithSign(Sgn(a[1]) * Sgn(b[1]),
                     RoundMag(qr[1], a[2] - b[2] - (MANT_BITS + 4), qr[2] # 0))

\* ------------------------------------------------- long decimal arithmetic

\* format!("{}", x) and the parser of decimal text compute on integers
\* wider than a machine word.  A long natural number is the tuple of its
\* BIG_DIGITS decimal digits, the least significant first.
BIG_DIGITS == 30

BigFromNat(n) ==
    [i \in 1 .. BIG_DIGITS |-> IF i > 10 THEN 0 ELSE (n \div 10^(i - 1)) % 10]

RECURSIVE BigAddFrom(_, _, _, _)
BigAddFrom(a, b, i, c) ==
    IF i > BIG_DIGITS THEN <<>>
    ELSE <<(a[i] + b[i] + c) % 10>>
             \o BigAddFrom(a, b, i + 1, (a[i] + b[i] + c) \div 10)

\* a + b.
BigAdd(a, b) == BigAddFrom(a, b, 1, 0)

RECURSIVE BigSubFrom(_, _, _, _)
BigSubFrom(a, b, i, c) ==
    IF i > BIG_DIGITS THEN <<>>
    ELSE <<(a[i] - b[i] - c + 10) % 10>>
             \o BigSubFrom(a, b, i + 1, IF a[i] - b[i] - c < 0 THEN 1 ELSE 0)

\* a - b, for a >= b.
BigSub(a, b) == BigSubFrom(a, b, 1, 0)

\* a < b.
BigLt(a, b) ==
    \E i \in 1 .. BIG_DIGITS :
        /\ a[i] < b[i]
        /\ \A j \in i + 1 .. BIG_DIGITS : a[j] = b[j]

\* 10 * a.
BigTimes10(a) == <<0>> \o SubSeq(a, 1, BIG_DIGITS - 1)

RECURSIVE BigTimesFrom(_, _, _, _)
BigTimesFrom(a, k, i, c) ==
    IF i > BIG_DIGITS THEN <<>>
    ELSE <<(a[i] * k + c) % 10>>
             \o BigTimesFrom(a, k, i + 1, (a[i] * k + c) \div 10)

\* a * k, for a small k.
BigTimes(a, k) == BigTimesFrom(a, k, 1, 0)

RECURSIVE BigShl(_, _)
\* a * 2^n, sixteen bits at a time.
BigShl(a, n) ==
    IF n <= 16 THEN BigTimes(a, 2^n)
    ELSE CHOOSE r \in { BigShl(d, n - 16) : d \in {BigTimes(a, 2^16)} } : TRUE

RECURSIVE BigDivMod(_, _, _)
\* <<q + a div s, a mod s>> for a < 10 * s, by repeated subtraction.
BigDivMod(a, s, q) ==
    IF BigLt(a, s) THEN <<q, a>>
    ELSE CHOOSE r \in { BigDivMod(d, s, q + 1) : d \in {BigSub(a, s)} } : TRUE

\* ------------------------------------------------------- unit conversion

\* The coefficient of the milli prefix, 1.0E-3 as f32 (0x3A83126F).
MILLI == <<8589935, -33>>

\* Current::new::<milliampere>(x): the stored value is in ampere.
Current_new_milliampere(x) == FMul(x, MILLI)

\* limit.get::<milliampere>().
get_milliampere(limit) == FDiv(limit, MILLI)

\* limit.is_sign_positive().
is_sign_positive(x) == x[1] >= 0

\* --------------------------------------------------------------- results

NoValue == <<>>

Ok(v) == [kind |-> "Ok", err |-> "none", value |-> v]

Err(e) == [kind |-> "Err", err |-> e, value |-> NoValue]

\* An assert!/unimplemented! that fired: the call never returns.
Panic == [kind |-> "Panic", err |-> "panic", value |-> NoValue]

\* ------------------------------------------------------ command catalog
\* A request is the pair of its literal mnemonic and its formatted
\* parameters.  A parameter token is the number the formatter is given:
\* <<n>> for an integer, <<m, e>> for a float.

Request(mnemonic, args) == [mnemonic |-> mnemonic, args |-> args]

\* A constructor either yields a request or panics.
Built(request) == [ok |-> TRUE, request |-> request]

Refused == [ok |-> FALSE, request |-> Request("", <<>>)]

EnableRequest == Request("CH1:ENA", <<>>)

DisableRequest == Request("CH1:DIS", <<>>)

ResetRequest == Request("*RST", <<>>)

IdentityRequest == Request("*IDN?", <<>>)

\* FormatVolt: the voltage in volt, the base unit.
SetVoltageRequest(voltage) == Request("CH1:VOL ", <<voltage>>)

MeasureRequest(voltage) == Request("CH1:MEA:VOL ", <<voltage>>)

SetOverSampleRateRequest(samples) == Request("CH1:OSR ", <<(<<samples>>)>>)

\* The upper bound of the current limit in milliampere (commands.rs:61).
MAX_LIMIT_MA == 40

\* SetCurrentLimitRequest::new without its assertion.
SetCurrentLimitRequest_new_unchecked(limit) ==
    Built(Request("CH1:CUR ", <<get_milliampere(limit)>>))

\* SetCurrentLimitRequest::new with `<` for `<=`.
SetCurrentLimitRequest_new_strict(limit) ==
    IF is_sign_positive(limit)
       /\ FLt(get_milliampere(limit), FromInt(MAX_LIMIT_MA))
    THEN Built(Request("CH1:CUR ", <<get_milliampere(limit)>>))
    ELSE Refused

\* SetCurrentLimitRequest::new and its FormatMilliAmpere serialization.
SetCurrentLimitRequest_new(limit) ==
    IF is_sign_positive(limit)
       /\ FLe(get_milliampere(limit), FromInt(MAX_LIMIT_MA))
    THEN Built(Request("CH1:CUR ", <<get_milliampere(limit)>>))
    ELSE Refused

\* DifferentialConversionRequest::new taking every channel up to two.
DifferentialConversionRequest_new_up_to_two(channel) ==
    IF channel <= 2
    THEN Built(Request("ADC ", <<(<<channel>>)>>))
    ELSE Refused

\* DifferentialConversionRequest::new.
DifferentialConversionRequest_new(channel) ==
    IF channel = 0 \/ channel = 2
    THEN Built(Request("ADC ", <<(<<channel>>)>>))
    ELSE Refused

\* SetCurrentLimitDacRequest::new with the shift off by one: level >> 13 == 0.
SetCurrentLimitDacRequest_new_13_bit(level) ==
    IF level \div 8192 = 0
    THEN Built(Request("ILIM ", <<(<<level>>)>>))
    ELSE Refused

\* SetCurrentLimitDacRequest::new: level >> 12 == 0.
SetCurrentLimitDacRequest_new(level) ==
    IF level \div 4096 = 0
    THEN Built(Request("ILIM ", <<(<<level>>)>>))
    ELSE Refused

\* The struct literal SetCurrentLimitDacRequest { level } (level is pub).
SetCurrentLimitDacRequest_literal(level) == Request("ILIM ", <<(<<level>>)>>)

\* CurrentRange::new with the range (0..=4).
CurrentRange_new_from_zero(value) ==
    IF value >= 0 /\ value <= 4
    THEN [ok |-> TRUE, value |-> value]
    ELSE [ok |-> FALSE, value |-> 0]

\* CurrentRange::new: the only way to a CurrentRange outside commands.rs.
CurrentRange_new(value) ==
    IF value >= 1 /\ value <= 4
    THEN [ok |-> TRUE, value |-> value]
    ELSE [ok |-> FALSE, value |-> 0]

LockCurrentRangeAndClearCalibrationRequest(range) ==
    Request("CH1:RANGE", <<(<<range>>)>>)

WriteCurrentLimitCalibrationRequest(range, slope, intercept) ==
    Request("CAL:CUR:RANGE ", <<(<<range>>), slope, intercept>>)

\* ---------------------------------------------------------------- codec
\* Text read from the link is a sequence of one-character strings.

LF == "\n"

Digits == {"0", "1", "2", "3", "4", "5", "6", "7", "8", "9"}

DigitVal(c) ==
    CASE c = "0" -> 0 [] c = "1" -> 1 [] c = "2" -> 2 [] c = "3" -> 3
      [] c = "4" -> 4 [] c = "5" -> 5 [] c = "6" -> 6 [] c = "7" -> 7
      [] c = "8" -> 8 [] c = "9" -> 9

Drop(s, n) == SubSeq(s, n + 1, Len(s))

IsPrefix(p, s) == Len(p) <= Len(s) /\ SubSeq(s, 1, Len(p)) = p

\* Length of the longest prefix of s made of decimal digits.
DigitRun(s) ==
    CHOOSE n \in 0 .. Len(s) :
        /\ \A i \in 1 .. n : s[i] \in Digits
        /\ n < Len(s) => s[n + 1] \notin Digits

RECURSIVE DecimalValue(_, _)
\* The number written by the first n characters of the digit string s.
DecimalValue(s, n) ==
    IF n = 0 THEN 0 ELSE 10 * DecimalValue(s, n - 1) + DigitVal(s[n])

Parsed(v, rest) == [ok |-> TRUE, err |-> "none", value |-> v, rest |-> rest]

Failed(e, rest) == [ok |-> FALSE, err |-> e, value |-> NoValue, rest |-> rest]

\* scpi_client::match_literal: the literal must be the next thing in the
\* input and is consumed.
match_literal(input, literal) ==
    IF IsPrefix(literal, input)
    THEN Parsed(NoValue, Drop(input, Len(literal)))
    ELSE Failed("UnexpectedToken", input)

\* scpi_client::check_empty.
check_empty(data) ==
    IF data = <<>> THEN Parsed(NoValue, data) ELSE Failed("TrailingData", data)

\* An unsigned integer of at most `max`: the longest run of digits.
unsigned_deserialize(input, max) ==
    CHOOSE res \in
        { IF n = 0 \/ n > 7 \/ DecimalValue(input, n) > max
          THEN Failed("Malformed", input)
          ELSE Parsed(<<DecimalValue(input, n)>>, Drop(input, n))
          : n \in {DigitRun(input)} } : TRUE

u16_deserialize(input) == unsigned_deserialize(input, 65535)

\* The digit string s without its leading zeros, one digit at least.
StripZeros(s) ==
    CHOOSE r \in { IF k = Len(s) THEN <<"0">> ELSE Drop(s, k)
                   : k \in { j \in 0 .. Len(s) :
                                /\ \A i \in 1 .. j : s[i] = "0"
                                /\ j < Len(s) => s[j + 1] # "0" } } : TRUE

\* a <= b for digit strings of the same length.
DigitsLe(a, b) ==
    \/ a = b
    \/ \E i \in 1 .. Len(a) :
           /\ \A j \in 1 .. i - 1 : a[j] = b[j]
           /\ DigitVal(a[i]) < DigitVal(b[i])

\* u32::MAX in decimal.
U32_MAX == <<"4", "2", "9", "4", "9", "6", "7", "2", "9", "5">>

\* u32::deserialize: the longest run of digits, a number of at most
\* u32::MAX.  The number is held as its decimal digits without leading
\* zeros, which is also what format!("{uid}") prints.
u32_deserialize(input) ==
    CHOOSE res \in
        UNION { { IF n = 0 THEN Failed("Malformed", input)
                  ELSE IF Len(d) > 10 \/ (Len(d) = 10 /\ ~DigitsLe(d, U32_MAX))
                  THEN Failed("Malformed", input)
                  ELSE Parsed(d, Drop(input, n))
                  : d \in {StripZeros(SubSeq(input, 1, n))} }
                : n \in {DigitRun(input)} } : TRUE

\* The long number written by the digit string s.
BigFromText(s) ==
    [i \in 1 .. BIG_DIGITS |->
        IF i <= Len(s) THEN DigitVal(s[Len(s) + 1 - i]) ELSE 0]

\* a * 10^j.
BigShiftDec(a, j) == [i \in 1 .. BIG_DIGITS |-> IF i <= j THEN 0 ELSE a[i - j]]

RECURSIVE BigQuot(_, _, _, _)
\* <<a div d, a mod d>> for a < d * 10^j, by decimal long division; the
\* quotient is a machine integer.
BigQuot(a, d, j, q) ==
    IF j = 0 THEN <<q, a>>
    ELSE CHOOSE r \in
             { BigQuot(qr[2], d, j - 1, 10 * q + qr[1])
               : qr \in {BigDivMod(a, BigShiftDec(d, j - 1), 0)} } : TRUE

RECURSIVE DecimalScale(_)
\* Bring num / den into [2^23, 2^24) by doubling one of the two; lo is
\* den * 2^23 and exp counts the doublings.
DecimalScale(st) ==
    IF BigLt(st.num, st.lo)
    THEN CHOOSE r \in
             { DecimalScale(n)
               : n \in {[st EXCEPT !.num = BigAdd(@, @), !.exp = @ - 1]} } : TRUE
    ELSE IF ~BigLt(st.num, BigAdd(st.lo, st.lo))
    THEN CHOOSE r \in
             { DecimalScale(n)
               : n \in {[st EXCEPT !.den = BigAdd(@, @), !.lo = BigAdd(@, @),
                                   !.exp = @ + 1]} } : TRUE
    ELSE st

\* dec2flt for a decimal of any length: the float nearest to the number
\* whose digits are digs, the last nf of them after the point, ties to
\* even.
dec2flt(digs, nf) ==
    IF \A i \in 1 .. Len(digs) : digs[i] = "0" THEN FZero
    ELSE CHOOSE res \in
      UNION { UNION { UNION {
        { IF q1 = 2^MANT_BITS THEN <<2^(MANT_BITS - 1), st.exp + 1>>
          ELSE <<q1, st.exp>>
          : q1 \in {IF BigLt(st.den, twice) \/ (twice = st.den /\ qr[1] % 2 = 1)
                    THEN qr[1] + 1 ELSE qr[1]} }
        : twice \in {BigAdd(qr[2], qr[2])} }
        : qr \in {BigQuot(st.num, st.den, 8, 0)} }
        : st \in {DecimalScale([num |-> BigFromText(digs),
                                den |-> BigShiftDec(BigFromNat(1), nf),
                                lo  |-> BigShl(BigShiftDec(BigFromNat(1), nf),
                                               MANT_BITS - 1),
                                exp |-> 0])} } : TRUE

\* The float nearest to the decimal number whose digits are digs, the last
\* nf of them after the point.  Up to seven digits both the number and the
\* power of ten are floats and one division rounds once; longer texts go
\* through the long arithmetic.
DecimalToF32(digs, nf) ==
    IF Len(digs) <= 7
    THEN FDiv(FromInt(DecimalValue(digs, Len(digs))), FromInt(10^nf))
    ELSE dec2flt(digs, nf)

\* The fraction part at the head of s: a point and at least one digit.
\* The number of digits, 0 when there is no fraction part.
FractionRun(s) ==
    IF Len(s) >= 2 /\ s[1] = "." /\ s[2] \in Digits
    THEN DigitRun(Tail(s)) ELSE 0

\* f32::deserialize on an input without sign: ni integer digits and nf
\* fraction digits are consumed.
unsigned_f32(s, ni, nf) ==
    IF ni = 0 \/ ni + nf > BIG_DIGITS - 10
    THEN Failed("Malformed", s)
    ELSE Parsed(DecimalToF32(SubSeq(s, 1, ni) \o SubSeq(s, ni + 2, ni + 1 + nf),
                             nf),
                Drop(s, IF nf = 0 THEN ni ELSE ni + 1 + nf))

\* f32::deserialize: an optional sign, digits, and an optional fraction
\* part; the value is the float nearest to the decimal number.
f32_deserialize(input) ==
    CHOOSE res \in
        UNION { UNION { { IF ~u.ok THEN Failed(u.err, input)
                          ELSE IF s = input THEN u
                          ELSE Parsed(FNeg(u.value), u.rest)
                          : u \in {unsigned_f32(s, ni, FractionRun(Drop(s, ni)))} }
                        : ni \in {DigitRun(s)} }
                : s \in {IF input # <<>> /\ Head(input) = "-"
                         THEN Tail(input) ELSE input} } : TRUE

\* The character of the decimal digit d.
DigitChar(d) == <<"0", "1", "2", "3", "4", "5", "6", "7", "8", "9">>[d + 1]

\* mant + plus has reached scale: scale <= mant + plus when the interval of
\* the float includes its ends (even significand), scale < mant + plus
\* otherwise.
DragonOver(mant, plus, scale, inclusive) ==
    CHOOSE r \in { IF inclusive THEN ~BigLt(t, scale) ELSE BigLt(scale, t)
                   : t \in {BigAdd(mant, plus)} } : TRUE

\* The float x > 0 as mant / scale, with the distances minus and plus to
\* the midpoints towards its two neighbours in the same unit; the next
\* float below a power of two is half as far as the one above.
DragonDecode(x) ==
    LET edge == x[1] = 2^(MANT_BITS - 1)
        exp  == IF edge THEN x[2] - 2 ELSE x[2] - 1
        up   == IF exp > 0 THEN exp ELSE 0
        down == IF exp < 0 THEN -exp ELSE 0
    IN  [mant  |-> BigShl(BigFromNat(IF edge THEN 4 * x[1] ELSE 2 * x[1]), up),
         minus |-> BigShl(BigFromNat(1), up),
         plus  |-> BigShl(BigFromNat(IF edge THEN 2 ELSE 1), up),
         scale |-> BigShl(BigFromNat(1), down),
         k     |-> 1]

RECURSIVE DragonScaleUp(_, _)
\* Multiply scale by ten while the upper end of the interval is ten or more.
DragonScaleUp(st, inclusive) ==
    CHOOSE r \in
        UNION { IF DragonOver(st.mant, st.plus, s10, inclusive)
                THEN { DragonScaleUp(n, inclusive)
                       : n \in {[st EXCEPT !.scale = s10, !.k = @ + 1]} }
                ELSE {st}
                : s10 \in {BigTimes10(st.scale)} } : TRUE

RECURSIVE DragonScaleDown(_, _)
\* Multiply the float by ten while the upper end of the interval is below
\* one.
DragonScaleDown(st, inclusive) ==
    IF DragonOver(st.mant, st.plus, st.scale, inclusive) THEN st
    ELSE CHOOSE r \in
             { DragonScaleDown(n, inclusive)
               : n \in {[st EXCEPT !.mant = BigTimes10(@),
                                   !.minus = BigTimes10(@),
                                   !.plus = BigTimes10(@),
                                   !.k = @ - 1]} } : TRUE

\* round_up of flt2dec: the digits plus one in the last place; all nines
\* become a one and zeros, one digit more.
DragonRoundUp(buf) ==
    IF \A i \in 1 .. Len(buf) : buf[i] = 9
    THEN [buf |-> <<1>> \o [i \in 1 .. Len(buf) |-> 0], carry |-> 1]
    ELSE LET p == CHOOSE i \in 1 .. Len(buf) :
                      /\ buf[i] # 9
                      /\ \A j \in i + 1 .. Len(buf) : buf[j] = 9
         IN  [buf |-> [i \in 1 .. Len(buf) |->
                          IF i < p THEN buf[i]
                          ELSE IF i = p THEN buf[i] + 1 ELSE 0],
              carry |-> 0]

RECURSIVE DragonDigits(_, _, _)
\* The digit loop of format_shortest: digits are produced until the rest
\* is within the interval of the float on one side, then the last digit is
\* rounded up if the upper side is the nearer one.
DragonDigits(st, buf, inclusive) ==
    CHOOSE res \in
      UNION { UNION { UNION {
        IF down \/ up
        THEN IF up /\ (~down \/ ~BigLt(BigAdd(qr[2], qr[2]), st.scale))
             THEN { [buf |-> r.buf, k |-> st.k + r.carry]
                    : r \in {DragonRoundUp(buf \o <<qr[1]>>)} }
             ELSE { [buf |-> buf \o <<qr[1]>>, k |-> st.k] }
        ELSE { DragonDigits(n, b, inclusive)
               : n \in {[st EXCEPT !.mant = BigTimes10(qr[2]),
                                   !.minus = BigTimes10(@),
                                   !.plus = BigTimes10(@)]},
                 b \in {buf \o <<qr[1]>>} }
        : up \in {DragonOver(qr[2], st.plus, st.scale, inclusive)} }
        : down \in {IF inclusive THEN ~BigLt(st.minus, qr[2])
                    ELSE BigLt(qr[2], st.minus)} }
        : qr \in {BigDivMod(st.mant, st.scale, 0)} } : TRUE

\* flt2dec::strategy::dragon::format_shortest for x > 0: the shortest
\* digits d1 .. dn and the exponent k such that 0.d1...dn * 10^k lies in
\* the interval of the reals that round to x, nearest to x among those.
format_shortest(x) ==
    CHOOSE res \in
      UNION { UNION { { DragonDigits(s, <<>>, x[1] % 2 = 0)
        : s \in {DragonScaleDown(u, x[1] % 2 = 0)} }
        : u \in {DragonScaleUp(d, x[1] % 2 = 0)} }
        : d \in {DragonDecode(x)} } : TRUE

\* digits_to_dec_str: 0.d1...dn * 10^k in positional notation with no
\* exponent and no more digits than given.
digits_to_dec_str(buf, k) ==
    LET n     == Len(buf)
        chars == [i \in 1 .. n |-> DigitChar(buf[i])]
    IN  IF k <= 0
        THEN <<"0", ".">> \o [i \in 1 .. -k |-> "0"] \o chars
        ELSE IF k < n
        THEN SubSeq(chars, 1, k) \o <<".">> \o SubSeq(chars, k + 1, n)
        ELSE chars \o [i \in 1 .. k - n |-> "0"]

\* format!("{}", value) for an f32: the shortest decimal text that reads
\* back as the same float.
Display(value) ==
    IF value[1] = 0 THEN <<"0">>
    ELSE CHOOSE res \in
             { (IF value[1] < 0 THEN <<"-">> ELSE <<>>)
                   \o digits_to_dec_str(d.buf, d.k)
               : d \in {format_shortest(FAbs(value))} } : TRUE

\* FormatVolt cutting the text after six places behind the point, as
\* format!("{:.6}") would for a text that long.
FormatVolt_serialize_six_places(voltage) ==
    CHOOSE res \in
        { IF \E i \in 1 .. Len(t) : t[i] = "." /\ Len(t) > i + 6
          THEN SubSeq(t, 1, 6 + CHOOSE i \in 1 .. Len(t) : t[i] = ".")
          ELSE t
          : t \in {Display(voltage)} } : TRUE

\* FormatVolt::serialize: format!("{}", self.0.get::<volt>()).
FormatVolt_serialize(voltage) == Display(voltage)

\* MeasureResponse::deserialize taking any one character between the
\* fields.
MeasureResponse_deserialize_any_separator(input) ==
    CHOOSE res \in
        UNION { UNION { { IF ~v.ok THEN Failed(v.err, input)
                          ELSE IF ~c.ok THEN Failed(c.err, input)
                          ELSE IF ~i.ok THEN Failed(i.err, input)
                          ELSE Parsed(<<v.value, i.value>>, i.rest)
                          : i \in {f32_deserialize(c.rest)} }
                        : c \in {IF v.rest = <<>>
                                 THEN Failed("UnexpectedToken", v.rest)
                                 ELSE Parsed(NoValue, Tail(v.rest))} }
                : v \in {f32_deserialize(input)} } : TRUE

\* MeasureResponse::deserialize: voltage in volt, ",", current in ampere.
MeasureResponse_deserialize(input) ==
    CHOOSE res \in
        UNION { UNION { { IF ~v.ok THEN Failed(v.err, input)
                          ELSE IF ~c.ok THEN Failed(c.err, input)
                          ELSE IF ~i.ok THEN Failed(i.err, input)
                          ELSE Parsed(<<v.value, i.value>>, i.rest)
                          : i \in {f32_deserialize(c.rest)} }
                        : c \in {match_literal(v.rest, <<",">>)} }
                : v \in {f32_deserialize(input)} } : TRUE

\* DifferentialConversionResponse::deserialize.
DifferentialConversionResponse_deserialize(input) == u16_deserialize(input)

\* The banner an identity reply starts with.
IDENTITY_BANNER ==
    <<"u", "S", "M", "U", " ", "v", "e", "r", "s", "i", "o", "n", " ",
      "1", ".", "0", " ", "I", "D", ":">>

\* The identity line a device with the given uid replies.
IdentityLine(uid) == IDENTITY_BANNER \o uid \o <<LF>>

\* IdentityResponse::deserialize with the banner matched whatever the case
\* of its letters.
IdentityResponse_deserialize_any_case(input) ==
    CHOOSE res \in
        { IF Len(input) < Len(IDENTITY_BANNER)
          THEN Failed("UnexpectedToken", input)
          ELSE u32_deserialize(Drop(input, Len(IDENTITY_BANNER))) } : TRUE

\* IdentityResponse::deserialize: the banner, then the uid.
IdentityResponse_deserialize(input) ==
    CHOOSE res \in
        UNION { { IF ~b.ok THEN Failed(b.err, input)
                  ELSE IF ~u.ok THEN Failed(u.err, input)
                  ELSE u
                  : u \in {u32_deserialize(b.rest)} }
                : b \in {match_literal(input, IDENTITY_BANNER)} } : TRUE

\* Response::deserialize for the response type of the request.
deserialize(shape, input) ==
    CASE shape = "Measure" -> MeasureResponse_deserialize(input)
      [] shape = "Identity" -> IdentityResponse_deserialize(input)
      [] shape = "DifferentialConversion" ->
             DifferentialConversionResponse_deserialize(input)

\* ---------------------------------------------------- transport session

\* The pause after a transmission, in milliseconds (lib.rs:81).
SETTLE_MS == 50

\* The read timeout of the port, in milliseconds (lib.rs:56).
READ_TIMEOUT_MS == 1000

\* The link as the session sees it:
\*   wire    the buffers write_all has written in full, each with the time
\*           of the write;
\*   rx      the bytes the device has sent that no read has fetched yet;
\*   readlog one entry per read_line call;
\*   lost    the bytes a BufReader had fetched beyond the line it returned
\*           when it was dropped at the end of query;
\*   now     a lower bound of the elapsed time in milliseconds.
FreshPort ==
    [wire |-> <<>>, rx |-> <<>>, readlog |-> <<>>, lost |-> <<>>, now |-> 0]

\* What a call did: the link after it, what it returned, and how many
\* times it wrote a buffer and read a line.
Outcome(p, result, writes, reads) ==
    [port |-> p, result |-> result, writes |-> writes, reads |-> reads]

\* The characters of a literal of the catalog.
MnemonicText(mnemonic) ==
    CASE mnemonic = "CH1:ENA" -> <<"C", "H", "1", ":", "E", "N", "A">>
      [] mnemonic = "CH1:DIS" -> <<"C", "H", "1", ":", "D", "I", "S">>
      [] mnemonic = "CH1:CUR " -> <<"C", "H", "1", ":", "C", "U", "R", " ">>
      [] mnemonic = "CH1:VOL " -> <<"C", "H", "1", ":", "V", "O", "L", " ">>
      [] mnemonic = "CH1:MEA:VOL " ->
             <<"C", "H", "1", ":", "M", "E", "A", ":", "V", "O", "L", " ">>
      [] mnemonic = "CH1:OSR " -> <<"C", "H", "1", ":", "O", "S", "R", " ">>
      [] mnemonic = "DAC " -> <<"D", "A", "C", " ">>
      [] mnemonic = "ADC " -> <<"A", "D", "C", " ">>
      [] mnemonic = "ILIM " -> <<"I", "L", "I", "M", " ">>
      [] mnemonic = "CH1:VCAL" -> <<"C", "H", "1", ":", "V", "C", "A", "L">>
      [] mnemonic = "CH1:RANGE" -> <<"C", "H", "1", ":", "R", "A", "N", "G", "E">>
      [] mnemonic = "WRITE " -> <<"W", "R", "I", "T", "E", " ">>
      [] mnemonic = "*READ " -> <<"*", "R", "E", "A", "D", " ">>
      [] mnemonic = "*RST" -> <<"*", "R", "S", "T">>
      [] mnemonic = "*IDN?" -> <<"*", "I", "D", "N", "?">>
      [] mnemonic = "CAL:DAC " -> <<"C", "A", "L", ":", "D", "A", "C", " ">>
      [] mnemonic = "CAL:VOL " -> <<"C", "A", "L", ":", "V", "O", "L", " ">>
      [] mnemonic = "CAL:CUR:RANGE " ->
             <<"C", "A", "L", ":", "C", "U", "R", ":", "R", "A", "N", "G", "E", " ">>
      [] mnemonic = "CAL:ILIM " -> <<"C", "A", "L", ":", "I", "L", "I", "M", " ">>

RECURSIVE format_unsigned(_)
\* An unsigned integer parameter: its decimal digits.
format_unsigned(n) ==
    IF n < 10 THEN <<DigitChar(n)>>
    ELSE format_unsigned(n \div 10) \o <<DigitChar(n % 10)>>

\* A parameter token as text: an integer by its digits, a float by
\* format!("{}").
format_token(token) ==
    IF Len(token) = 1 THEN format_unsigned(token[1]) ELSE Display(token)

RECURSIVE format_tokens(_)
\* The parameters of a request, a blank between two of them.
format_tokens(args) ==
    IF args = <<>> THEN <<>>
    ELSE IF Len(args) = 1 THEN format_token(args[1])
    ELSE format_token(args[1]) \o <<" ">> \o format_tokens(Tail(args))

\* request.serialize(&mut out): the literal, then the parameters.
serialize(request) == MnemonicText(request.mnemonic) \o format_tokens(request.args)

\* The characters of ASCII: the printable ones and the tab, the carriage
\* return and the line feed.  The grave accent, which a string of this
\* module cannot hold, is left out; no text of the catalog has one.
Ascii ==
    {" ", "!", "\"", "#", "$", "%", "&", "'", "(", ")", "*", "+", ",", "-",
     ".", "/", "0", "1", "2", "3", "4", "5", "6", "7", "8", "9", ":", ";",
     "<", "=", ">", "?", "@", "A", "B", "C", "D", "E", "F", "G", "H", "I",
     "J", "K", "L", "M", "N", "O", "P", "Q", "R", "S", "T", "U", "V", "W",
     "X", "Y", "Z", "[", "\\", "]", "^", "_", "a", "b", "c", "d", "e",
     "f", "g", "h", "i", "j", "k", "l", "m", "n", "o", "p", "q", "r", "s",
     "t", "u", "v", "w", "x", "y", "z", "{", "|", "}", "~", "\t", "\r", LF}

\* out.is_ascii().
is_ascii(out) == \A i \in 1 .. Len(out) : out[i] \in Ascii

\* The buffer of send without the terminator pushed.
send_buffer_no_terminator(request) == serialize(request)

\* The buffer of send: request.serialize(&mut out); out.push('\n').
send_buffer(request) == serialize(request) \o <<LF>>

\* send without the pause after the transmission.
send_no_settle(p, request, wok) ==
    IF wok
    THEN Outcome([p EXCEPT !.wire = Append(@, [mnemonic |-> request.mnemonic,
                                               args     |-> request.args,
                                               tail     |-> LF,
                                               at       |-> p.now])],
                 Ok(NoValue), 1, 0)
    ELSE Outcome(p, Err("IoError"), 1, 0)

\* send that writes the buffer a second time when the first write fails.
send_retrying(p, request, wok) ==
    IF wok
    THEN Outcome([p EXCEPT !.wire = Append(@, [mnemonic |-> request.mnemonic,
                                               args     |-> request.args,
                                               tail     |-> LF,
                                               at       |-> p.now]),
                           !.now  = @ + SETTLE_MS],
                 Ok(NoValue), 1, 0)
    ELSE Outcome([p EXCEPT !.wire = Append(@, [mnemonic |-> request.mnemonic,
                                               args     |-> request.args,
                                               tail     |-> LF,
                                               at       |-> p.now]),
                           !.now  = @ + SETTLE_MS],
                 Ok(NoValue), 2, 0)

\* MicroSmu::send: serialize the request, push the terminator, write the
\* whole buffer with one write_all, then sleep.  wok is whether write_all
\* succeeds; a failed write_all returns before the sleep.
send(p, request, wok) ==
    IF wok
    THEN Outcome([p EXCEPT !.wire = Append(@, [mnemonic |-> request.mnemonic,
                                               args     |-> request.args,
                                               tail     |-> LF,
                                               at       |-> p.now]),
                           !.now  = @ + SETTLE_MS],
                 Ok(NoValue), 1, 0)
    ELSE Outcome(p, Err("IoError"), 1, 0)

\* MicroSmu::send_command.
send_command(p, request, wok) == send(p, request, wok)

\* Position of the first c in s, 0 when there is none.
IndexOf(s, c) ==
    IF \E i \in 1 .. Len(s) : s[i] = c
    THEN CHOOSE i \in 1 .. Len(s) : s[i] = c /\ \A j \in 1 .. i - 1 : s[j] # c
    ELSE 0

\* BufReader::new(&mut self.port) followed by read_line: the reader takes
\* bytes up to and including the first terminator.  Bytes it has fetched
\* beyond the terminator go with the reader when query returns
\* (dev.fetch = "all"); bytes it has not fetched stay in the port.  With no
\* terminator to come, the read ends with a timeout error or, at the end of
\* the stream, with the partial line.
read_line(p, dev) ==
    LET nl == IndexOf(p.rx, LF)
    IN IF nl > 0
       THEN [ok   |-> TRUE,
             data |-> SubSeq(p.rx, 1, nl),
             port |-> [p EXCEPT
                         !.rx = IF dev.fetch = "all" THEN <<>> ELSE Drop(@, nl),
                         !.lost = IF dev.fetch = "all"
                                  THEN @ \o Drop(p.rx, nl) ELSE @,
                         !.readlog = Append(@, [data |-> SubSeq(p.rx, 1, nl),
                                                end  |-> "line"])]]
       ELSE IF dev.stall = "eof"
       THEN [ok   |-> TRUE,
             data |-> p.rx,
             port |-> [p EXCEPT
                         !.rx = <<>>,
                         !.readlog = Append(@, [data |-> p.rx, end |-> "eof"])]]
       ELSE [ok   |-> FALSE,
             data |-> p.rx,
             port |-> [p EXCEPT
                         !.rx = <<>>,
                         !.now = @ + READ_TIMEOUT_MS,
                         !.readlog = Append(@, [data |-> p.rx,
                                                end  |-> "timeout"])]]

\* The device answers a command it has received with dev.reply.
Answered(p, dev) == [p EXCEPT !.rx = @ \o dev.reply]

\* The checks of query on what is left of the line after the response,
\* left out.
check_line_end_unchecked(rest) == Parsed(NoValue, <<>>)

\* match_literal(&mut data, "\n")?; check_empty(data)?
check_line_end(rest) ==
    CHOOSE res \in
        { IF ~m.ok THEN m ELSE check_empty(m.rest)
          : m \in {match_literal(rest, <<LF>>)} } : TRUE

\* The response decoded from the line `data`, or the error.
decode_line(shape, data) ==
    CHOOSE res \in
        UNION { { IF ~d.ok THEN Err(d.err)
                  ELSE IF ~e.ok THEN Err(e.err)
                  ELSE Ok(d.value)
                  : e \in {check_line_end(d.rest)} }
                : d \in {deserialize(shape, data)} } : TRUE

\* MicroSmu::query: send, read one line, decode it.
query(p, request, shape, wok, dev) ==
    CHOOSE out \in
        UNION { IF s.result.kind # "Ok" THEN {s}
                ELSE { IF ~r.ok
                       THEN Outcome(r.port, Err("IoError"), s.writes, 1)
                       ELSE Outcome(r.port, decode_line(shape, r.data),
                                    s.writes, 1)
                       : r \in {read_line(Answered(s.port, dev), dev)} }
                : s \in {send(p, request, wok)} } : TRUE

\* A constructor's assertion fired inside the call: nothing was sent.
Panicked(p) == Outcome(p, Panic, 0, 0)

enable(p, wok) == send_command(p, EnableRequest, wok)

disable(p, wok) == send_command(p, DisableRequest, wok)

set_current_limit(p, limit, wok) ==
    LET r == SetCurrentLimitRequest_new(limit)
    IN IF r.ok THEN send_command(p, r.request, wok) ELSE Panicked(p)

set_voltage(p, voltage, wok) == send_command(p, SetVoltageRequest(voltage), wok)

measure(p, voltage, wok, dev) ==
    query(p, MeasureRequest(voltage), "Measure", wok, dev)

set_over_sample_rate(p, samples, wok) ==
    send_command(p, SetOverSampleRateRequest(samples), wok)

manual_measure_differential_channel(p, channel, wok, dev) ==
    LET r == DifferentialConversionRequest_new(channel)
    IN IF r.ok
       THEN query(p, r.request, "DifferentialConversion", wok, dev)
       ELSE Panicked(p)

set_current_limit_dac(p, level, wok) ==
    send_command(p, SetCurrentLimitDacRequest_literal(level), wok)

lock_current_range_and_clear_calibration(p, range, wok) ==
    send_command(p, LockCurrentRangeAndClearCalibrationRequest(range), wok)

write_current_limit_calibration(p, range, slope, intercept, wok) ==
    send_command(p, WriteCurrentLimitCalibrationRequest(range, slope, intercept),
                 wok)

\* MicroSmu::get_identity: the uid of the identity reply.
get_identity(p, wok, dev) == query(p, IdentityRequest, "Identity", wok, dev)

\* MicroSmu::write_eeprom: unimplemented!(..) whatever the address and the
\* value, so the call panics before anything is built or sent.
write_eeprom(p, address, value) == Panicked(p)

\* reset that borrows the session instead of consuming it.
reset_borrowing(p, wok) ==
    [out |-> send_command(p, ResetRequest, wok), handle |-> "owned"]

\* MicroSmu::reset(mut self): the session is moved into the call and
\* dropped when it returns, whatever it returns.
reset(p, wok) ==
    [out |-> send_command(p, ResetRequest, wok), handle |-> "dropped"]

\* --------------------------------------------------------------- linspace

\* ndarray::linspace(a, b, n): the iterator over n evenly spaced floats.
linspace_step_over_n(a, b, n) ==
    [start |-> a,
     step  |-> IF n > 1 THEN FDiv(FSub(b, a), FromInt(n)) ELSE FZero,
     index |-> 0,
     len   |-> n]

linspace(a, b, n) ==
    [start |-> a,
     step  |-> IF n > 1 THEN FDiv(FSub(b, a), FromInt(n - 1)) ELSE FZero,
     index |-> 0,
     len   |-> n]

\* Linspace::next: the value start + step * index, and the iterator after it.
Linspace_value(l) == FAdd(l.start, FMul(l.step, FromInt(l.index)))

Linspace_advance(l) == [l EXCEPT !.index = @ + 1]

\* ------------------------------------------------------------------ state

VARIABLES
    port,      \* the serial link of the session (see FreshPort)
    handle,    \* "owned" while the caller holds the MicroSmu, else "dropped"
    status,    \* "running", or "panicked" once an assertion has fired
    call,      \* the last call on the session and what it returned
    calls,     \* number of calls the caller has made
    budget,    \* number of calls the caller makes at most
    cfg,       \* IvCurveRecordingParameters of the sweep
    pc,        \* position of the caller
    setup,     \* index of the next statement of the sweep's setup
    lin,       \* the linspace iterator of the sweep
    points,    \* the set-points the iterator has yielded
    samples,   \* the Vec of samples of the sweep
    recorded,  \* what record returned, once it has
    found,     \* the ports find_serial_ports returned, with their devices
    param,     \* SmuConnectionParameter: the selectors
    ports,     \* the Vec of (port, serial) pairs of connect
    listing,   \* the devices connect has printed to stderr
    selected,  \* the outcome of the selection in connect, once made
    connected, \* what connect returned, once it has
    handles    \* the ports connect has opened and closed, in order

vars == <<port, handle, status, call, calls, budget, cfg, pc, setup, lin,
          points, samples, recorded, found, param, ports, listing, selected,
          connected, handles>>

connectVars == <<found, param, ports, listing, selected, connected, handles>>

sweepVars == <<cfg, pc, setup, lin, points, samples, recorded>>

NoCall == [op |-> "none", arg |-> <<>>, wok |-> TRUE, result |-> Ok(NoValue),
           writes |-> 0, reads |-> 0]

NoConfig == [start_voltage |-> FZero, end_voltage |-> FZero, voltage_steps |-> 0,
             current_limit |-> FZero, over_sampling |-> 0, delay |-> 0]

NotRecorded == [kind |-> "none", err |-> "none", value |-> NoValue]

\* An Option: None, or Some(x).
None == <<>>

Some(x) == <<x>>

NoParam == [port |-> None, serial_number |-> None]

\* ----------------------------------------------------------------- bounds

\* Calls the caller of the session makes on one connection.
MaxCalls == 2

\* Largest step count of a sweep.
MaxSweepSteps == 3

\* Largest length of a linspace taken on its own.
MaxLinspaceLen == 50

\* Largest number of ports find_serial_ports returns.
MaxPorts == 2

\* ----------------------------------------------------------------- inputs

Volt(n) == FromInt(n)

MilliAmpere(n) == Current_new_milliampere(FromInt(n))

ReplyMeasure == <<"1", ".", "5", ",", "0", ".", "0", "0", "2", LF>>

ReplyMeasure2 == <<"2", ",", "0", ".", "0", "1", LF>>

ReplyAdc == <<"5", "1", "2", LF>>

ReplyNoComma == <<"1", ".", "5", " ", "0", ".", "0", "0", "2", LF>>

ReplyTrailing == <<"1", ".", "5", ",", "0", ".", "0", "0", "2", "x", LF>>

ReplyPartial == <<"1", ".", "5", ",", "0", ".", "0", "0", "2">>

ReplySilent == <<>>

ReplyTwoLines == ReplyMeasure \o ReplyMeasure2

Replies == {ReplyMeasure, ReplyMeasure2, ReplyAdc, ReplyNoComma, ReplyTrailing,
            ReplyPartial, ReplySilent, ReplyTwoLines}

\* What the device and the link do during one query.
Devices == [reply : Replies, fetch : {"line", "all"}, stall : {"timeout", "eof"}]

\* Current limits in milliampere: below zero, the ends of the domain and
\* their neighbours among the floats, and beyond the maximum.
CatalogLimits == {FromInt(-1), <<-8388608, -53>>, FZero, FromInt(20),
                  <<10485759, -18>>, FromInt(40), <<10485761, -18>>,
                  FromInt(100)}

CatalogLevels == {0, 1, 2048, 4095, 4096, 8191, 8192, 65535}

CatalogChannels == 0 .. 4 \cup {255}

CatalogRanges == 0 .. 5 \cup {255}

SessionVoltages == {Volt(1)}

\* The names of the ports found, in the order of the enumeration.
PortNames == <<"/dev/ttyACM0", "/dev/ttyACM1", "/dev/ttyACM2", "/dev/ttyACM3">>

\* A device that answers with its uid, one that stays silent, and one whose
\* port cannot be opened.
DeviceKinds ==
    {[openable |-> TRUE, reply |-> IdentityLine(<<"4", "2">>)],
     [openable |-> TRUE, reply |-> IdentityLine(<<"7">>)],
     [openable |-> TRUE, reply |-> <<>>],
     [openable |-> FALSE, reply |-> <<>>]}

FoundPorts ==
    UNION { { [i \in 1 .. n |-> [port_name |-> PortNames[i],
                                 openable  |-> k[i].openable,
                                 reply     |-> k[i].reply]]
              : k \in [1 .. n -> DeviceKinds] }
            : n \in 0 .. MaxPorts }

ConnectionParameters ==
    [port          : {None, Some(PortNames[1]), Some(PortNames[2]),
                      Some("/dev/ttyUSB9")},
     serial_number : {None, Some(<<"4", "2">>), Some(<<"9">>)}]

SweepConfigs ==
    [start_voltage : {Volt(-1)},
     end_voltage   : {Volt(1), Volt(2)},
     voltage_steps : 0 .. MaxSweepSteps,
     current_limit : {MilliAmpere(20), MilliAmpere(100), MilliAmpere(-1),
                      Current_new_milliampere(<<10485761, -18>>)},
     over_sampling : {10},
     delay         : {0, 10}]

LinspaceConfigs ==
    [start_voltage : {Volt(-5), Volt(-1), Volt(0)},
     end_voltage   : {Volt(1), Volt(2), Volt(-1)},
     voltage_steps : 0 .. MaxLinspaceLen,
     current_limit : {FZero},
     over_sampling : {0},
     delay         : {0}]

\* Texts an identity reply may start with: the banner, the banner in lower
\* case, the banner without its colon, the banner after a blank, nothing.
IdentityPrefixes ==
    {IDENTITY_BANNER,
     <<"u", "s", "m", "u", " ", "v", "e", "r", "s", "i", "o", "n", " ",
       "1", ".", "0", " ", "i", "d", ":">>,
     <<"u", "S", "M", "U", " ", "v", "e", "r", "s", "i", "o", "n", " ",
       "1", ".", "0", " ", "I", "D">>,
     <<" ">> \o IDENTITY_BANNER,
     <<>>}

\* Texts in the place of the uid, with the uid they write when they write
\* one that fits a u32.
UidTexts ==
    {[text |-> <<"4", "2">>, uid |-> <<"4", "2">>, fits |-> TRUE],
     [text |-> <<"0">>, uid |-> <<"0">>, fits |-> TRUE],
     [text |-> <<"7">>, uid |-> <<"7">>, fits |-> TRUE],
     [text |-> U32_MAX, uid |-> U32_MAX, fits |-> TRUE],
     [text |-> <<"4", "2", "9", "4", "9", "6", "7", "2", "9", "6">>, uid |-> <<>>, fits |-> FALSE],
     [text |-> <<"-", "1">>, uid |-> <<>>, fits |-> FALSE],
     [text |-> <<" ", "4", "2">>, uid |-> <<>>, fits |-> FALSE],
     [text |-> <<>>, uid |-> <<>>, fits |-> FALSE]}

IdentityCases ==
    [prefix : IdentityPrefixes, id : UidTexts, tail : {<<>>, <<LF>>, <<"x">>}]

\* Decimal numbers as a device writes them, with the nearest f32.
NumberTexts ==
    {[text |-> <<"1", ".", "5">>, value |-> <<12582912, -23>>],
     [text |-> <<"0", ".", "0", "0", "2">>, value |-> <<8589935, -32>>],
     [text |-> <<"2">>, value |-> <<8388608, -22>>],
     [text |-> <<"0", ".", "0", "1">>, value |-> <<10737418, -30>>],
     [text |-> <<"-", "1", ".", "5">>, value |-> <<-12582912, -23>>],
     [text |-> <<"0">>, value |-> <<0, 0>>],
     [text |-> <<"0", ".", "0", "0", "0", "1", "2", "3">>, value |-> <<8452496, -36>>]}

\* What stands between the two fields of a measure reply.
Separators == {<<",">>, <<" ">>, <<";">>, <<",", ",">>, <<>>}

\* Floats of the magnitudes the device deals in: one nanoampere and the
\* floats next to it, ten nanoampere (the finest resolution), currents up to
\* the limit in ampere and in milliampere, voltages of a sweep, and floats
\* at and above a power of two.
TestedMagnitudes ==
    {<<m, -53>> : m \in 9007191 .. 9007207}
        \cup {<<m, -23>> : m \in 8388608 .. 8388612}
        \cup {<<11258999, -50>>, <<11258999, -52>>, <<16536655, -45>>,
              <<8452496, -36>>, <<8589935, -33>>, <<8589935, -32>>,
              <<10737418, -30>>, <<10737418, -28>>, <<13421773, -27>>,
              <<11184811, -25>>, <<12582912, -23>>, <<8388610, -22>>,
              <<13841203, -22>>, <<10485760, -21>>, <<12845056, -20>>,
              <<10485760, -18>>, <<8388608, 0>>, <<16777215, 0>>}

TestedValues ==
    {FZero} \cup TestedMagnitudes \cup {FNeg(x) : x \in TestedMagnitudes}

\* Every request of the catalog, over values of its parameters.
CatalogRequests ==
    {EnableRequest, DisableRequest, ResetRequest, IdentityRequest,
     Request("CH1:VCAL", <<>>)}
        \cup {SetVoltageRequest(v) : v \in TestedValues}
        \cup {MeasureRequest(v) : v \in TestedValues}
        \cup {r.request : r \in {q \in {SetCurrentLimitRequest_new(
                                            Current_new_milliampere(x))
                                        : x \in CatalogLimits} : q.ok}}
        \cup {SetOverSampleRateRequest(n) : n \in {0, 10, 65535}}
        \cup {Request("DAC ", <<(<<n>>)>>) : n \in {0, 4095, 65535}}
        \cup {r.request : r \in {q \in {DifferentialConversionRequest_new(ch)
                                        : ch \in CatalogChannels} : q.ok}}
        \cup {SetCurrentLimitDacRequest_literal(n) : n \in CatalogLevels}
        \cup {LockCurrentRangeAndClearCalibrationRequest(r) : r \in 1 .. 4}
        \cup {Request("*READ ", <<(<<a>>)>>) : a \in {0, 255}}
        \cup {Request("WRITE ", <<(<<a>>), x>>)
              : a \in {0, 255}, x \in {FZero, <<-9007199, -53>>}}
        \cup {Request(m, <<slope, intercept>>)
              : m \in {"CAL:DAC ", "CAL:VOL ", "CAL:ILIM "},
                slope \in {FromInt(1), <<13841203, -22>>},
                intercept \in {FZero, <<-9007199, -53>>}}
        \cup {WriteCurrentLimitCalibrationRequest(r, FromInt(1), <<-8589935, -33>>)
              : r \in 1 .. 4}

MeasureCases ==
    [first  : NumberTexts,
     sep    : Separators,
     second : NumberTexts \cup {[text |-> <<>>, value |-> FZero]},
     tail   : {<<>>, <<LF>>}]

\* ----------------------------------------------------- calls on a session

\* The call op(arg) ran with outcome out.
Return(op, arg, wok, out) ==
    \E o \in {out} :
        /\ port' = o.port
        /\ call' = [op |-> op, arg |-> arg, wok |-> wok, result |-> o.result,
                    writes |-> o.writes, reads |-> o.reads]
        /\ status' = IF o.result.kind = "Panic" THEN "panicked" ELSE status

\* The caller holds a usable session and has calls left.
ApiReady ==
    /\ pc = "api"
    /\ status = "running"
    /\ handle = "owned"
    /\ calls < budget

ApiCalled ==
    /\ calls' = calls + 1
    /\ UNCHANGED <<budget, sweepVars, connectVars>>

DoEnable ==
    /\ ApiReady
    /\ \E wok \in BOOLEAN : Return("enable", <<>>, wok, enable(port, wok))
    /\ ApiCalled
    /\ UNCHANGED handle

DoDisable ==
    /\ ApiReady
    /\ \E wok \in BOOLEAN : Return("disable", <<>>, wok, disable(port, wok))
    /\ ApiCalled
    /\ UNCHANGED handle

\* set_current_limit(Current::new::<milliampere>(x)) for an x of `limits`.
DoSetCurrentLimit(limits) ==
    /\ ApiReady
    /\ \E x \in limits, wok \in BOOLEAN :
           Return("set_current_limit", <<x>>, wok,
                  set_current_limit(port, Current_new_milliampere(x), wok))
    /\ ApiCalled
    /\ UNCHANGED handle

DoSetVoltage(voltages) ==
    /\ ApiReady
    /\ \E v \in voltages, wok \in BOOLEAN :
           Return("set_voltage", <<v>>, wok, set_voltage(port, v, wok))
    /\ ApiCalled
    /\ UNCHANGED handle

DoMeasure(voltages) ==
    /\ ApiReady
    /\ \E v \in voltages, wok \in BOOLEAN, dev \in Devices :
           Return("measure", <<v>>, wok, measure(port, v, wok, dev))
    /\ ApiCalled
    /\ UNCHANGED handle

DoSetOverSampleRate ==
    /\ ApiReady
    /\ \E wok \in BOOLEAN :
           Return("set_over_sample_rate", <<(<<10>>)>>, wok,
                  set_over_sample_rate(port, 10, wok))
    /\ ApiCalled
    /\ UNCHANGED handle

DoManualMeasureDifferentialChannel(channels) ==
    /\ ApiReady
    /\ \E ch \in channels, wok \in BOOLEAN, dev \in Devices :
           Return("manual_measure_differential_channel", <<(<<ch>>)>>, wok,
                  manual_measure_differential_channel(port, ch, wok, dev))
    /\ ApiCalled
    /\ UNCHANGED handle

DoSetCurrentLimitDac(levels) ==
    /\ ApiReady
    /\ \E level \in levels, wok \in BOOLEAN :
           Return("set_current_limit_dac", <<(<<level>>)>>, wok,
                  set_current_limit_dac(port, level, wok))
    /\ ApiCalled
    /\ UNCHANGED handle

\* SetCurrentLimitDacRequest::new(level) called on its own, as the crate's
\* test does: nothing is sent.
NewSetCurrentLimitDacRequest(levels) ==
    /\ ApiReady
    /\ \E level \in levels :
       \E r \in {SetCurrentLimitDacRequest_new(level)} :
           Return("SetCurrentLimitDacRequest::new", <<(<<level>>)>>, TRUE,
                  Outcome(port, IF r.ok THEN Ok(r.request) ELSE Panic, 0, 0))
    /\ ApiCalled
    /\ UNCHANGED handle

\* lock_current_range_and_clear_calibration(CurrentRange::new(value)): the
\* range is built by the caller, and a refused value panics there.
DoLockCurrentRange(values) ==
    /\ ApiReady
    /\ \E value \in values, wok \in BOOLEAN :
           LET range == CurrentRange_new(value)
           IN Return("lock_current_range_and_clear_calibration",
                     <<(<<value>>)>>, wok,
                     IF range.ok
                     THEN lock_current_range_and_clear_calibration(
                              port, range.value, wok)
                     ELSE Panicked(port))
    /\ ApiCalled
    /\ UNCHANGED handle

DoWriteCurrentLimitCalibration(values) ==
    /\ ApiReady
    /\ \E value \in values, slope \in {FromInt(1), FromInt(2)},
          intercept \in {FZero, FromInt(-1)}, wok \in BOOLEAN :
           LET range == CurrentRange_new(value)
           IN Return("write_current_limit_calibration",
                     <<(<<value>>), slope, intercept>>, wok,
                     IF range.ok
                     THEN write_current_limit_calibration(
                              port, range.value, slope, intercept, wok)
                     ELSE Panicked(port))
    /\ ApiCalled
    /\ UNCHANGED handle

DoWriteEeprom ==
    /\ ApiReady
    /\ \E address \in {0, 65535}, value \in {FZero, FromInt(1)} :
           Return("write_eeprom", <<(<<address>>), value>>, TRUE,
                  write_eeprom(port, address, value))
    /\ ApiCalled
    /\ UNCHANGED handle

DoReset ==
    /\ ApiReady
    /\ \E wok \in BOOLEAN :
           /\ Return("reset", <<>>, wok, reset(port, wok).out)
           /\ handle' = reset(port, wok).handle
    /\ ApiCalled

\* ------------------------------------------------------------- the sweep

\* The statements of record before the ramp, in program order, with the
\* enabling of the output moved before the current limit.
record_setup_enable_first ==
    <<"set_voltage", "enable", "set_current_limit", "set_over_sample_rate">>

\* The statements of record before the ramp, in program order.
record_setup ==
    <<"set_voltage", "set_current_limit", "enable", "set_over_sample_rate">>

RecordAt(statement) ==
    /\ pc = "setup"
    /\ status = "running"
    /\ handle = "owned"
    /\ record_setup[setup] = statement

\* Where record goes after a call with outcome out during the setup: on,
\* or out of the function with the error (the ? operator).
SetupReturn(out) ==
    /\ IF out.result.kind = "Ok"
       THEN /\ recorded' = recorded
            /\ IF setup = Len(record_setup)
               THEN /\ pc' = "ramp"
                    /\ setup' = setup
                    /\ lin' = linspace(cfg.start_voltage, cfg.end_voltage,
                                       cfg.voltage_steps)
               ELSE /\ pc' = "setup"
                    /\ setup' = setup + 1
                    /\ lin' = lin
       ELSE /\ pc' = IF out.result.kind = "Err" THEN "failed" ELSE "panicked"
            /\ recorded' = IF out.result.kind = "Err"
                           THEN Err(out.result.err) ELSE recorded
            /\ UNCHANGED <<setup, lin>>
    /\ UNCHANGED <<handle, calls, budget, cfg, points, samples>>
    /\ UNCHANGED connectVars

record_set_voltage ==
    /\ RecordAt("set_voltage")
    /\ \E wok \in BOOLEAN :
       \E out \in {set_voltage(port, cfg.start_voltage, wok)} :
           Return("set_voltage", <<cfg.start_voltage>>, wok, out)
           /\ SetupReturn(out)

record_set_current_limit ==
    /\ RecordAt("set_current_limit")
    /\ \E wok \in BOOLEAN :
       \E out \in {set_current_limit(port, cfg.current_limit, wok)} :
           Return("set_current_limit", <<cfg.current_limit>>, wok, out)
           /\ SetupReturn(out)

record_enable ==
    /\ RecordAt("enable")
    /\ \E wok \in BOOLEAN :
       \E out \in {enable(port, wok)} :
           Return("enable", <<>>, wok, out) /\ SetupReturn(out)

record_set_over_sample_rate ==
    /\ RecordAt("set_over_sample_rate")
    /\ \E wok \in BOOLEAN :
       \E out \in {set_over_sample_rate(port, cfg.over_sampling, wok)} :
           Return("set_over_sample_rate", <<(<<cfg.over_sampling>>)>>, wok, out)
           /\ SetupReturn(out)

\* let MeasureResponse { voltage, current } = ...; (voltage, current).
sample(response) == <<response[1], response[2]>>

\* The measurement of a ramp step taken at the start voltage.
ramp_measure_at_start(p, set_voltage_, wok, dev) ==
    measure(p, cfg.start_voltage, wok, dev)

\* smu.measure(set_voltage) of a ramp step.
ramp_measure(p, set_voltage_, wok, dev) == measure(p, set_voltage_, wok, dev)

\* A ramp step up to the sleep: take the next set-point, command it, wait.
record_ramp_set ==
    /\ pc = "ramp" /\ status = "running" /\ handle = "owned"
    /\ lin.index < lin.len
    /\ \E wok \in BOOLEAN :
       \E v \in {Linspace_value(lin)} :
       \E out \in {set_voltage(port, v, wok)} :
              /\ call' = [op |-> "set_voltage", arg |-> <<v>>, wok |-> wok,
                          result |-> out.result, writes |-> out.writes,
                          reads |-> out.reads]
              /\ lin' = Linspace_advance(lin)
              /\ points' = Append(points, v)
              /\ IF out.result.kind = "Ok"
                 THEN /\ port' = [out.port EXCEPT !.now = @ + cfg.delay]
                      /\ pc' = "measure"
                      /\ recorded' = recorded
                 ELSE /\ port' = out.port
                      /\ pc' = "failed"
                      /\ recorded' = Err(out.result.err)
    /\ UNCHANGED <<handle, status, calls, budget, cfg, setup, samples>>
    /\ UNCHANGED connectVars

\* The rest of a ramp step with a failed measurement noted and skipped: the
\* ramp goes on with the next set-point.
record_ramp_measure_skipping ==
    /\ pc = "measure" /\ status = "running" /\ handle = "owned"
    /\ \E wok \in BOOLEAN, dev \in Devices :
       \E v \in {points[Len(points)]} :
       \E out \in {ramp_measure(port, v, wok, dev)} :
              /\ Return("measure", <<v>>, wok, out)
              /\ pc' = "ramp"
              /\ IF out.result.kind = "Ok"
                 THEN /\ samples' = Append(samples, sample(out.result.value))
                      /\ recorded' = recorded
                 ELSE /\ samples' = samples
                      /\ recorded' = Err(out.result.err)
    /\ UNCHANGED <<handle, calls, budget, cfg, setup, lin, points>>
    /\ UNCHANGED connectVars

\* The rest of a ramp step: measure at the set-point and push the sample.
record_ramp_measure ==
    /\ pc = "measure" /\ status = "running" /\ handle = "owned"
    /\ \E wok \in BOOLEAN, dev \in Devices :
       \E v \in {points[Len(points)]} :
       \E out \in {ramp_measure(port, v, wok, dev)} :
              /\ Return("measure", <<v>>, wok, out)
              /\ IF out.result.kind = "Ok"
                 THEN /\ samples' = Append(samples, sample(out.result.value))
                      /\ pc' = "ramp"
                      /\ recorded' = recorded
                 ELSE /\ samples' = samples
                      /\ pc' = "failed"
                      /\ recorded' = Err(out.result.err)
    /\ UNCHANGED <<handle, calls, budget, cfg, setup, lin, points>>
    /\ UNCHANGED connectVars

\* The end of record with the output left enabled.
record_no_disable ==
    /\ pc = "ramp" /\ status = "running" /\ handle = "owned"
    /\ lin.index >= lin.len
    /\ pc' = "done"
    /\ recorded' = Ok(samples)
    /\ UNCHANGED <<port, call, status, handle, calls, budget, cfg, setup, lin,
                   points, samples>>
    /\ UNCHANGED connectVars

\* The end of record: the iterator is exhausted, disable the output and
\* return the samples.
record_disable ==
    /\ pc = "ramp" /\ status = "running" /\ handle = "owned"
    /\ lin.index >= lin.len
    /\ \E wok \in BOOLEAN :
       \E out \in {disable(port, wok)} :
              /\ Return("disable", <<>>, wok, out)
              /\ IF out.result.kind = "Ok"
                 THEN pc' = "done" /\ recorded' = Ok(samples)
                 ELSE pc' = "failed" /\ recorded' = Err(out.result.err)
    /\ UNCHANGED <<handle, calls, budget, cfg, setup, lin, points, samples>>
    /\ UNCHANGED connectVars

\* Linspace::next on an iterator taken on its own.
LinspaceNext ==
    /\ pc = "linspace"
    /\ lin.index < lin.len
    /\ points' = Append(points, Linspace_value(lin))
    /\ lin' = Linspace_advance(lin)
    /\ UNCHANGED <<port, handle, status, call, calls, budget, cfg, pc, setup,
                   samples, recorded>>
    /\ UNCHANGED connectVars

\* ------------------------------------------------------ send on its own

\* MicroSmu::send up to write_all for a request of the catalog: the buffer
\* is built, checked by assert!(out.is_ascii()) and written.
send_request ==
    /\ pc = "encode"
    /\ calls < budget
    /\ \E request \in CatalogRequests, wok \in BOOLEAN :
       \E out \in {send_buffer(request)} :
           Return("send", <<request, out>>, wok,
                  IF is_ascii(out) THEN send(port, request, wok)
                  ELSE Panicked(port))
    /\ calls' = calls + 1
    /\ UNCHANGED <<handle, budget, sweepVars, connectVars>>

\* ------------------------------------------------- decoders on their own

\* A decoder applied to a text: what it returned and what it left.
Decoded(op, case, d) ==
    /\ pc = "codec"
    /\ calls < budget
    /\ calls' = calls + 1
    /\ call' = [op |-> op, arg |-> <<case>>, wok |-> TRUE,
                result |-> IF d.ok THEN Ok(<<d.value, d.rest>>) ELSE Err(d.err),
                writes |-> 0, reads |-> 0]
    /\ UNCHANGED <<port, handle, status, budget, sweepVars, connectVars>>

\* IdentityResponse::deserialize(&mut input).
decode_identity ==
    \E c \in IdentityCases :
    \E d \in {IdentityResponse_deserialize(c.prefix \o c.id.text \o c.tail)} :
        Decoded("IdentityResponse::deserialize", c, d)

\* MeasureResponse::deserialize(&mut input).
decode_measure ==
    \E c \in MeasureCases :
    \E d \in {MeasureResponse_deserialize(
                  c.first.text \o c.sep \o c.second.text \o c.tail)} :
        Decoded("MeasureResponse::deserialize", c, d)

\* tests::float_conversion_is_reasonably_lossless for any value: the value
\* is serialized, the text deserialized, and nothing may be left of it.
float_conversion ==
    \E x \in TestedValues :
    \E text \in {FormatVolt_serialize(x)} :
    \E d \in {f32_deserialize(text)} :
    \E c \in {IF d.ok THEN check_empty(d.rest) ELSE d} :
        Decoded("float_conversion", [value |-> x, text |-> text],
                IF c.ok THEN d ELSE Failed(c.err, text))

\* ---------------------------------------------------------------- connect

\* "<failed to read>", the serial of a device whose identity was not read.
FAILED_TO_READ ==
    <<"<", "f", "a", "i", "l", "e", "d", " ", "t", "o", " ", "r", "e", "a",
      "d", ">">>

\* The serial of a candidate, with nothing in place of a failed read.
read_serial_blank_on_failure(candidate, wok) ==
    CHOOSE serial \in
        { IF candidate.openable /\ out.result.kind = "Ok"
          THEN out.result.value ELSE <<>>
          : out \in {get_identity(FreshPort, wok,
                                  [reply |-> candidate.reply, fetch |-> "line",
                                   stall |-> "timeout"])} } : TRUE

\* MicroSmu::open(port.clone()).ok().and_then(|mut e| e.get_identity().ok())
\*     .map(|e| format!("{e}")).unwrap_or("<failed to read>".to_string())
read_serial(candidate, wok) ==
    CHOOSE serial \in
        { IF candidate.openable /\ out.result.kind = "Ok"
          THEN out.result.value ELSE FAILED_TO_READ
          : out \in {get_identity(FreshPort, wok,
                                  [reply |-> candidate.reply, fetch |-> "line",
                                   stall |-> "timeout"])} } : TRUE

\* The handles of the closure of the map with the session kept open.
probe_handles_kept_open(candidate) ==
    IF candidate.openable
    THEN <<[event |-> "open", port |-> candidate.port_name]>>
    ELSE <<>>

\* What the closure of the map does to the port of a candidate:
\* MicroSmu::open opens it, and the session, moved into the closure of
\* and_then, is dropped at the end of that closure, which closes it.  A
\* port that cannot be opened is never open.
probe_handles(candidate) ==
    IF candidate.openable
    THEN <<[event |-> "open", port |-> candidate.port_name],
           [event |-> "close", port |-> candidate.port_name]>>
    ELSE <<>>

\* ports.retain(|(e, _)| e.port_name == port) when a port is given.
retain_port(ps, sel) ==
    IF sel = None THEN ps ELSE SelectSeq(ps, LAMBDA e : e.port = sel[1])

\* ports.retain(|(_, e)| e == serial_number) when a serial number is given.
retain_serial(ps, sel) ==
    IF sel = None THEN ps ELSE SelectSeq(ps, LAMBDA e : e.serial = sel[1])

\* The closure of the map in connect, for the next port found.
connect_probe ==
    /\ pc = "probe"
    /\ Len(ports) < Len(found)
    /\ \E wok \in BOOLEAN :
       \E c \in {found[Len(ports) + 1]} :
           /\ ports' = Append(ports, [port   |-> c.port_name,
                                      serial |-> read_serial(c, wok)])
           /\ handles' = handles \o probe_handles(c)
    /\ UNCHANGED <<port, handle, status, call, calls, budget, sweepVars, found,
                   param, listing, selected, connected>>

\* connect from the collected Vec to the assertion: no port, several ports
\* and no selector, the two retains, assert_eq!(ports.len(), 1).
connect_select ==
    /\ pc = "probe"
    /\ Len(ports) = Len(found)
    /\ IF ports = <<>>
       THEN /\ selected' = Err("NotFound")
            /\ connected' = Err("NotFound")
            /\ pc' = "failed"
            /\ UNCHANGED <<ports, listing, status>>
       ELSE IF Len(ports) > 1 /\ param.port = None /\ param.serial_number = None
       THEN /\ listing' = ports
            /\ selected' = Err("Ambiguous")
            /\ connected' = Err("Ambiguous")
            /\ pc' = "failed"
            /\ UNCHANGED <<ports, status>>
       ELSE \E kept \in {retain_serial(retain_port(ports, param.port),
                                       param.serial_number)} :
                /\ ports' = kept
                /\ IF Len(kept) = 1
                   THEN /\ selected' = Ok(kept[1].port)
                        /\ pc' = "open"
                        /\ status' = status
                   ELSE /\ selected' = Panic
                        /\ pc' = "panicked"
                        /\ status' = "panicked"
                /\ UNCHANGED <<listing, connected>>
    /\ UNCHANGED <<port, handle, call, calls, budget, cfg, setup, lin, points,
                   samples, recorded, found, param, handles>>

\* let smu = MicroSmu::open(port)?; Ok(smu)
connect_open ==
    /\ pc = "open"
    /\ \E ok \in BOOLEAN :
           IF ok
           THEN /\ connected' = Ok(selected.value)
                /\ port' = FreshPort
                /\ handles' = Append(handles, [event |-> "open",
                                                port  |-> selected.value])
                /\ pc' = "connected"
           ELSE /\ connected' = Err("IoError")
                /\ port' = port
                /\ handles' = handles
                /\ pc' = "failed"
    /\ UNCHANGED <<handle, status, call, calls, budget, cfg, setup, lin, points,
                   samples, recorded, found, param, ports, listing, selected>>

\* --------------------------------------------------------- specifications

NoLin == linspace(FZero, FZero, 0)

\* No connect is under way.
NoConnect ==
    /\ found = <<>>
    /\ param = NoParam
    /\ ports = <<>>
    /\ listing = <<>>
    /\ selected = NotRecorded
    /\ connected = NotRecorded
    /\ handles = <<>>

InitSession(p, n) ==
    /\ port = FreshPort
    /\ handle = "owned"
    /\ status = "running"
    /\ call = NoCall
    /\ calls = 0
    /\ budget = n
    /\ pc = p
    /\ setup = 1
    /\ points = <<>>
    /\ samples = <<>>
    /\ recorded = NotRecorded

\* A caller making up to MaxCalls calls on one open session.
Init ==
    InitSession("api", MaxCalls) /\ cfg = NoConfig /\ lin = NoLin /\ NoConnect

Next ==
    \/ DoEnable
    \/ DoDisable
    \/ DoSetVoltage(SessionVoltages)
    \/ DoSetCurrentLimit({FromInt(20)})
    \/ DoSetOverSampleRate
    \/ DoMeasure(SessionVoltages)
    \/ DoManualMeasureDifferentialChannel({0})
    \/ DoWriteEeprom
    \/ DoReset

Spec == Init /\ [][Next]_vars

\* A caller making one call with a parameter, over the parameter's type.
InitCatalog ==
    InitSession("api", 1) /\ cfg = NoConfig /\ lin = NoLin /\ NoConnect

NextCatalog ==
    \/ DoSetCurrentLimit(CatalogLimits)
    \/ DoSetCurrentLimitDac(CatalogLevels)
    \/ NewSetCurrentLimitDacRequest(CatalogLevels)
    \/ DoManualMeasureDifferentialChannel(CatalogChannels)
    \/ DoLockCurrentRange(CatalogRanges)
    \/ DoWriteCurrentLimitCalibration(CatalogRanges)

SpecCatalog == InitCatalog /\ [][NextCatalog]_vars

\* IvCurveRecordingParameters::record on a freshly opened session.
InitSweep ==
    InitSession("setup", 0) /\ cfg \in SweepConfigs /\ lin = NoLin /\ NoConnect

NextSweep ==
    \/ record_set_voltage
    \/ record_set_current_limit
    \/ record_enable
    \/ record_set_over_sample_rate
    \/ record_ramp_set
    \/ record_ramp_measure
    \/ record_disable

SpecSweep == InitSweep /\ [][NextSweep]_vars

\* The linspace iterator of the sweep, run to its end.
InitLinspace ==
    /\ InitSession("linspace", 0)
    /\ cfg \in LinspaceConfigs
    /\ lin = linspace(cfg.start_voltage, cfg.end_voltage, cfg.voltage_steps)
    /\ NoConnect

NextLinspace == LinspaceNext

SpecLinspace == InitLinspace /\ [][NextLinspace]_vars

\* SmuConnectionParameter::connect over the ports found and the selectors.
InitConnect ==
    /\ InitSession("probe", 0)
    /\ cfg = NoConfig
    /\ lin = NoLin
    /\ found \in FoundPorts
    /\ param \in ConnectionParameters
    /\ ports = <<>>
    /\ listing = <<>>
    /\ selected = NotRecorded
    /\ connected = NotRecorded
    /\ handles = <<>>

NextConnect ==
    \/ connect_probe
    \/ connect_select
    \/ connect_open

SpecConnect == InitConnect /\ [][NextConnect]_vars

\* The decoders of the replies, each applied once to a text.
InitCodec == InitSession("codec", 1) /\ cfg = NoConfig /\ lin = NoLin /\ NoConnect

NextCodec ==
    \/ decode_identity
    \/ decode_measure
    \/ float_conversion

SpecCodec == InitCodec /\ [][NextCodec]_vars

\* send for every request of the catalog, once on a fresh session.
InitEncode == InitSession("encode", 1) /\ cfg = NoConfig /\ lin = NoLin /\ NoConnect

NextEncode == send_request

SpecEncode == InitEncode /\ [][NextEncode]_vars

\* ------------------------------------------------------------ properties

\* The command of a written buffer, without the time of the write.
Line(w) == [mnemonic |-> w.mnemonic, args |-> w.args]

Last(s) == s[Len(s)]

\* The k-th buffer a sweep with parameters cfg is to write before the ramp.
SetupLine(k) ==
    CASE k = 1 -> Request("CH1:VOL ", <<cfg.start_voltage>>)
      [] k = 2 -> Request("CH1:CUR ", <<get_milliampere(cfg.current_limit)>>)
      [] k = 3 -> Request("CH1:ENA", <<>>)
      [] k = 4 -> Request("CH1:OSR ", <<(<<cfg.over_sampling>>)>>)

\* C1: whatever a sweep has written so far begins with SetVoltage(start),
\* SetCurrentLimit(limit), Enable, SetOverSampleRate(n), in that order: the
\* k-th buffer written, k <= 4, is the k-th of these.  So nothing of the
\* ramp is written before all four, and Enable never before the limit.
C1_SetupOrder ==
    \A k \in 1 .. Len(port.wire) :
        k <= 4 => /\ port.wire[k].mnemonic = SetupLine(k).mnemonic
                  /\ port.wire[k].args = SetupLine(k).args

\* A sweep that got through its setup and has commanded a ramp step.
C1_Witness ==
    /\ pc = "measure"
    /\ Len(port.wire) = 5
    /\ port.wire[3].mnemonic = "CH1:ENA"

C3_DisableLast ==
    /\ \A k \in 1 .. Len(port.wire) :
           port.wire[k].mnemonic = "CH1:DIS" => k = Len(port.wire)
    /\ recorded.kind = "Ok" =>
           /\ Len(port.wire) >= 5
           /\ Line(Last(port.wire)) = DisableRequest
           /\ cfg.voltage_steps >= 1 =>
                  Line(port.wire[Len(port.wire) - 1])
                      = MeasureRequest(points[cfg.voltage_steps])

\* A sweep with at least one step that returned its samples.
C3_Witness ==
    /\ recorded.kind = "Ok"
    /\ cfg.voltage_steps >= 1
    /\ Len(samples) = cfg.voltage_steps

\* The iterator has yielded all its set-points.
Exhausted == pc = "linspace" /\ lin.index = lin.len

\* 2^-19 V, just under two microvolts.
ROUNDING_TOLERANCE == <<8388608, -42>>

\* C4 as stated: the iterator yields n set-points, only start when n = 1,
\* and for n > 1 the first is exactly start and the last exactly end.
C4_EndsExact ==
    Exhausted =>
        /\ Len(points) = cfg.voltage_steps
        /\ cfg.voltage_steps >= 1 => points[1] = cfg.start_voltage
        /\ cfg.voltage_steps > 1 => Last(points) = cfg.end_voltage

\* C4, amended: the iterator yields n set-points, the first exactly start
\* (the only one when n = 1); consecutive set-points differ by
\* (end - start) / (n - 1) and the last equals end, both up to the rounding
\* of single-precision arithmetic (here within 2^-19 V); for start = -1 V,
\* end = 1 V and n = 50 the last is exactly 1 V.
C4_EndsWithinRounding ==
    Exhausted =>
        /\ Len(points) = cfg.voltage_steps
        /\ cfg.voltage_steps >= 1 => points[1] = cfg.start_voltage
        /\ cfg.voltage_steps > 1 =>
               /\ FLe(FAbs(FSub(Last(points), cfg.end_voltage)),
                      ROUNDING_TOLERANCE)
               /\ \A i \in 1 .. cfg.voltage_steps - 1 :
                      FLe(FAbs(FSub(FSub(points[i + 1], points[i]),
                                    FDiv(FSub(cfg.end_voltage, cfg.start_voltage),
                                         FromInt(cfg.voltage_steps - 1)))),
                          ROUNDING_TOLERANCE)
        /\ (/\ cfg.start_voltage = Volt(-1)
            /\ cfg.end_voltage = Volt(1)
            /\ cfg.voltage_steps = 50) => Last(points) = Volt(1)

\* A finished iterator of more than one set-point whose last set-point is
\* not end.
C4_Witness ==
    /\ Exhausted
    /\ cfg.voltage_steps > 1
    /\ Len(points) = cfg.voltage_steps
    /\ points[1] = cfg.start_voltage
    /\ Last(points) # cfg.end_voltage

\* C5: every buffer written ends with the one terminator; a call whose
\* write succeeded wrote that one buffer and did not return before the
\* settle pause after the write had passed; so any two consecutive writes
\* are at least the settle pause apart.
C5_SettleAfterWrite ==
    /\ \A k \in 1 .. Len(port.wire) : port.wire[k].tail = LF
    /\ \A k \in 1 .. Len(port.wire) - 1 :
           port.wire[k + 1].at - port.wire[k].at >= SETTLE_MS
    /\ (call.op # "none" /\ call.result.kind # "Panic" /\ call.wok) =>
           /\ call.writes = 1
           /\ Len(port.wire) >= 1
           /\ port.now - Last(port.wire).at >= SETTLE_MS

\* Two commands without a reply written one after the other.
C5_Witness ==
    /\ Len(port.wire) = 2
    /\ port.wire[1].mnemonic = "CH1:VOL "
    /\ call.op = "enable"
    /\ call.result.kind = "Ok"

\* The response shape a querying operation decodes.
ShapeOf(op) == IF op = "measure" THEN "Measure" ELSE "DifferentialConversion"

\* The line holds a response of the shape, then the terminator, then nothing.
WellFormedLine(shape, data) ==
    /\ Len(data) >= 1
    /\ Last(data) = LF
    /\ \A i \in 1 .. Len(data) - 1 : data[i] # LF
    /\ deserialize(shape, SubSeq(data, 1, Len(data) - 1)).ok
    /\ deserialize(shape, SubSeq(data, 1, Len(data) - 1)).rest = <<>>

\* The errors of the reply decoder.
ProtocolErrors == {"UnexpectedToken", "TrailingData", "Malformed"}

\* C6 as stated: a query returns a value only for a well-formed, terminated
\* line with nothing after it, and a reply that came without its
\* terminator (a partial line at the timeout or at the end of the stream)
\* makes the query fail with an error of the reply decoder.
C6_MissingTerminatorIsProtocolError ==
    call.reads = 1 =>
        /\ call.result.kind = "Ok" =>
               WellFormedLine(ShapeOf(call.op), Last(port.readlog).data)
        /\ (/\ Last(port.readlog).data # <<>>
            /\ Last(port.readlog).end # "line") =>
               /\ call.result.kind = "Err"
               /\ call.result.err \in ProtocolErrors

\* C6, amended: a query returns a value exactly when the line it read is a
\* well-formed response followed by the terminator and nothing else.  A
\* line cut short by the end of the stream, or a response followed by
\* anything but the terminator, fails with UnexpectedToken; a read that
\* times out before the terminator fails with the I/O error of the read,
\* whatever part of a line had arrived.
C6_ValueOnlyFromWholeLine ==
    call.reads = 1 =>
        /\ call.result.kind \in {"Ok", "Err"}
        /\ call.result.kind = "Ok" <=>
               /\ Last(port.readlog).end = "line"
               /\ WellFormedLine(ShapeOf(call.op), Last(port.readlog).data)
        /\ Last(port.readlog).end = "eof" =>
               /\ call.result.kind = "Err"
               /\ call.result.err \in ProtocolErrors
               /\ deserialize(ShapeOf(call.op), Last(port.readlog).data).ok =>
                      call.result.err = "UnexpectedToken"
        /\ Last(port.readlog).end = "timeout" => call.result = Err("IoError")
        /\ (/\ Last(port.readlog).end = "line"
            /\ deserialize(ShapeOf(call.op), Last(port.readlog).data).ok
            /\ call.result.kind = "Err") =>
               call.result.err = "UnexpectedToken"

\* A query that read a complete response cut short by the end of the stream
\* and refused it.
C6_Witness ==
    /\ call.op = "measure"
    /\ call.reads = 1
    /\ Last(port.readlog) = [data |-> ReplyPartial, end |-> "eof"]
    /\ call.result = Err("UnexpectedToken")

\* C7: one call writes at most one buffer and reads at most one line.  When
\* its write fails it returns the I/O error with nothing written and nothing
\* read; when its read times out, or the line it read is not a well-formed
\* response, it returns the error with no value, having written once.
C7_SingleAttempt ==
    [][calls' = calls + 1 =>
           /\ call'.writes <= 1
           /\ call'.reads <= 1
           /\ Len(port'.wire) - Len(port.wire) = (IF call'.wok THEN call'.writes ELSE 0)
           /\ Len(port'.readlog) - Len(port.readlog) = call'.reads
           /\ (call'.writes = 1 /\ ~call'.wok) =>
                  /\ call'.result = Err("IoError")
                  /\ call'.reads = 0
                  /\ port'.wire = port.wire
           /\ (call'.reads = 1 /\ Last(port'.readlog).end = "timeout") =>
                  call'.result = Err("IoError")
           /\ (/\ call'.reads = 1
               /\ ~WellFormedLine(ShapeOf(call'.op), Last(port'.readlog).data)) =>
                  /\ call'.result.kind = "Err"
                  /\ call'.result.value = NoValue
    ]_vars

\* A measurement whose write failed, after an earlier call on the session.
C7_Witness ==
    /\ calls = 2
    /\ call.op = "measure"
    /\ ~call.wok
    /\ call.writes = 1
    /\ call.result = Err("IoError")

\* A Reset has been written on the connection.
ResetSent == \E k \in 1 .. Len(port.wire) : port.wire[k].mnemonic = "*RST"

\* C8: once a Reset has been written, the caller no longer holds the
\* session, and nothing is written or read on the connection any more.
C8_ClosedAfterReset ==
    [][ResetSent =>
           /\ handle = "dropped"
           /\ port'.wire = port.wire
           /\ port'.readlog = port.readlog
           /\ calls' = calls
    ]_vars

\* A successful Reset as the first of the calls the caller meant to make.
C8_Witness ==
    /\ ResetSent
    /\ call.op = "reset"
    /\ call.result.kind = "Ok"
    /\ calls < budget

\* The parameter of a written buffer lies in the domain of its command.
InDomain(w) ==
    CASE w.mnemonic = "CH1:CUR " ->
             /\ FLe(FZero, w.args[1])
             /\ FLe(w.args[1], FromInt(MAX_LIMIT_MA))
      [] w.mnemonic = "ILIM " -> w.args[1][1] \in 0 .. 4095
      [] w.mnemonic = "ADC " -> w.args[1][1] \in {0, 2}
      [] w.mnemonic = "CH1:RANGE" -> w.args[1][1] \in 1 .. 4
      [] w.mnemonic = "CAL:CUR:RANGE " -> w.args[1][1] \in 1 .. 4
      [] OTHER -> TRUE

\* C9 as stated: no buffer is ever written whose parameter lies outside the
\* domain of its command.
C9_WrittenParametersInDomain ==
    \A k \in 1 .. Len(port.wire) : InDomain(port.wire[k])

C11_DacLevelDomain ==
    call.op = "SetCurrentLimitDacRequest::new" =>
        /\ call.result.kind \in {"Ok", "Panic"}
        /\ call.result.kind = "Ok" <=> call.arg[1][1] \in 0 .. 4095
        /\ call.result.kind = "Ok" =>
               call.result.value = Request("ILIM ", <<call.arg[1]>>)
        /\ port.wire = <<>>

\* The constructor refusing 4096, the first level beyond twelve bits.
C11_Witness ==
    /\ call.op = "SetCurrentLimitDacRequest::new"
    /\ call.arg = <<(<<4096>>)>>
    /\ call.result = Panic
    /\ status = "panicked"

\* C12: a differential conversion is built exactly for the channels 0 and
\* 2: for them the call goes on to write "ADC <channel>" (when the write
\* succeeds), for every other channel the constructor's assertion fires and
\* nothing is written.
C12_ChannelDomain ==
    call.op = "manual_measure_differential_channel" =>
        /\ call.result.kind # "Panic" <=> call.arg[1][1] \in {0, 2}
        /\ call.result.kind = "Panic" => port.wire = <<>> /\ call.writes = 0
        /\ (call.result.kind # "Panic" /\ call.wok) =>
               Line(Last(port.wire)) = Request("ADC ", <<call.arg[1]>>)

\* Channel 2 accepted and written, the reply decoded.
C12_Witness ==
    /\ call.op = "manual_measure_differential_channel"
    /\ call.arg = <<(<<2>>)>>
    /\ call.result = Ok(<<512>>)
    /\ Len(port.wire) = 1

\* The operations that take a CurrentRange.
RangeOps == {"lock_current_range_and_clear_calibration",
             "write_current_limit_calibration"}

\* C13: a CurrentRange is built exactly for the values 1, 2, 3 and 4, and
\* for any other value the constructor's assertion fires; so the range
\* written by LockCurrentRangeAndClearCalibration or
\* WriteCurrentLimitCalibration is always the given value in 1 .. 4.
C13_RangeDomain ==
    /\ call.op \in RangeOps =>
           /\ call.result.kind # "Panic" <=> call.arg[1][1] \in 1 .. 4
           /\ call.result.kind = "Panic" => port.wire = <<>>
           /\ (call.result.kind # "Panic" /\ call.wok) =>
                  Last(port.wire).args[1] = call.arg[1]
    /\ \A k \in 1 .. Len(port.wire) :
           port.wire[k].mnemonic \in {"CH1:RANGE", "CAL:CUR:RANGE "} =>
               port.wire[k].args[1][1] \in 1 .. 4

\* Range 4 locked, the upper end of the domain.
C13_Witness ==
    /\ call.op = "lock_current_range_and_clear_calibration"
    /\ call.arg = <<(<<4>>)>>
    /\ call.result.kind = "Ok"
    /\ Line(Last(port.wire)) = Request("CH1:RANGE", <<(<<4>>)>>)

\* C14: write_eeprom returns the error UnsupportedOperation to its caller
\* for every address and value, writes nothing, and leaves the process
\* running with the session usable.
C14_WriteEepromReturnsError ==
    call.op = "write_eeprom" =>
        /\ call.result = Err("UnsupportedOperation")
        /\ call.writes = 0
        /\ status = "running"
        /\ handle = "owned"

\* C15: when exactly one port was found, the selection of connect yields
\* that port, whatever the port selector and the serial-number selector.
C15_SingleCandidateSelected ==
    (Len(found) = 1 /\ selected # NotRecorded) =>
        selected = Ok(found[1].port_name)

\* The uid a candidate's device replies with.
DeviceUid(c) == SubSeq(c.reply, Len(IDENTITY_BANNER) + 1, Len(c.reply) - 1)

C17_SelectionNeverCrashes ==
    /\ (selected # NotRecorded /\ Len(found) = 0) => selected = Err("NotFound")
    /\ (selected # NotRecorded /\ Len(found) > 1 /\ param # NoParam) =>
           /\ selected.kind # "Panic"
           /\ \A i \in 1 .. Len(ports) :
                  /\ param.port # None => ports[i].port = param.port[1]
                  /\ param.serial_number # None =>
                         ports[i].serial = param.serial_number[1]
           /\ Len(ports) = 1 => selected = Ok(ports[1].port)
           /\ Len(ports) = 0 => selected = Err("NotFound")
           /\ Len(ports) > 1 => selected = Err("Ambiguous")
    /\ selected.kind = "Ok" => Len(ports) = 1 /\ selected.value = ports[1].port

C19_MeasureDecoding ==
    call.op = "MeasureResponse::deserialize" =>
        LET c == call.arg[1]
            r == call.result
        IN  /\ r.kind = "Ok" <=> (c.sep = <<",">> /\ c.second.text # <<>>)
            /\ r.kind = "Ok"
                   => r.value = <<(<<c.first.value, c.second.value>>), c.tail>>
            /\ r.kind # "Ok" => r.kind = "Err"

\* The text "1.5,0.002" was decoded to 1.5 V and 0.002 A.
C19_Witness ==
    /\ call.op = "MeasureResponse::deserialize"
    /\ call.arg[1].first.text = <<"1", ".", "5">>
    /\ call.arg[1].sep = <<",">>
    /\ call.arg[1].second.text = <<"0", ".", "0", "0", "2">>
    /\ call.result.kind = "Ok"
    /\ call.result.value[1] = <<(<<12582912, -23>>), <<8589935, -32>>>>

\* C20: for every float of the tested magnitudes, one nanoampere among
\* them, the text the value is serialized to is deserialized with nothing
\* left over to the very same float.
C20_RoundTripLossless ==
    call.op = "float_conversion" =>
        call.result = Ok(<<call.arg[1].value, <<>>>>)

\* One nanoampere was written as "0.000000001" and read back unchanged.
C20_Witness ==
    /\ call.op = "float_conversion"
    /\ call.arg[1].value = <<9007199, -53>>
    /\ call.arg[1].text = <<"0", ".", "0", "0", "0", "0", "0", "0", "0", "0", "1">>
    /\ call.result = Ok(<<(<<9007199, -53>>), <<>>>>)

\* C21: the buffer send builds for any request of the catalog, whatever the
\* values of its parameters, is made of ASCII characters only, ends with
\* the line terminator and holds no other line terminator; the assertion
\* on it in send never fails, so send never panics.
C21_BufferIsOneAsciiLine ==
    call.op = "send" =>
        LET out == call.arg[2]
        IN  /\ call.result.kind # "Panic"
            /\ Len(out) >= 2
            /\ \A i \in 1 .. Len(out) : out[i] \in Ascii
            /\ out[Len(out)] = LF
            /\ \A i \in 1 .. Len(out) - 1 : out[i] # LF

\* The calibration of a current range was sent as one line with three
\* parameters, a negative fraction among them.
C21_Witness ==
    /\ call.op = "send"
    /\ call.result.kind = "Ok"
    /\ Len(port.wire) = 1
    /\ call.arg[2] = <<"C", "A", "L", ":", "C", "U", "R", ":", "R", "A", "N",
                       "G", "E", " ", "3", " ", "1", " ", "-", "0", ".", "0",
                       "0", "1", LF>>

\* C22 as stated: once a call on the session has failed with the I/O error
\* of its write or of its read, no later call on that session writes a
\* buffer or reads a line.
C22_ClosedAfterIoFailure ==
    [][call.result = Err("IoError") =>
           /\ port'.wire = port.wire
           /\ port'.readlog = port.readlog
    ]_vars

\* The operations that send a command without a reply.
CommandOps ==
    {"enable", "disable", "set_voltage", "set_current_limit",
     "set_over_sample_rate", "reset"}

\* C23 as stated: a call without a reply reads nothing; a query reads one
\* line, which ends at the first line terminator, and whatever the device
\* had delivered beyond that terminator is kept on the link for the next
\* read: no byte is lost.
C23_OneLineAndNothingLost ==
    /\ call.op \in CommandOps => call.reads = 0
    /\ call.reads <= 1
    /\ \A k \in 1 .. Len(port.readlog) :
           port.readlog[k].end = "line" =>
               IndexOf(port.readlog[k].data, LF) = Len(port.readlog[k].data)
    /\ port.lost = <<>>

\* C24: a sweep stops at the first command that fails, in the setup or in
\* the ramp: record returns that error and not the samples taken so far, no
\* statement of the sweep can run any more, so nothing further is written,
\* and no Disable has been written; after a failure behind Enable the
\* output is left enabled, the last voltage written being the last
\* set-point commanded.
C24_StopsAtFailure ==
    /\ call.result.kind = "Err" => pc = "failed"
    /\ pc = "failed" =>
           /\ call.result.kind = "Err"
           /\ recorded = Err(call.result.err)
           /\ ~ENABLED NextSweep
           /\ \A k \in 1 .. Len(port.wire) : port.wire[k].mnemonic # "CH1:DIS"
           /\ Len(port.wire) >= 3 =>
                  /\ Line(port.wire[3]) = EnableRequest
                  /\ Len(port.wire) >= 5 =>
                         Last(port.wire).args
                             = <<points[(Len(port.wire) - 3) \div 2]>>

\* A sweep whose second measurement failed: one sample was taken, the
\* output is enabled, and record returned the error.
C24_Witness ==
    /\ pc = "failed"
    /\ call.op = "measure"
    /\ Len(samples) = 1
    /\ Len(port.wire) >= 7
    /\ port.wire[3].mnemonic = "CH1:ENA"
    /\ recorded.kind = "Err"

\* The ports open after the first k openings and closings of connect, one
\* entry for each handle.
OpenAfter(k) ==
    { i \in 1 .. k :
          /\ handles[i].event = "open"
          /\ ~\E j \in i + 1 .. k :
                  /\ handles[j].event = "close"
                  /\ handles[j].port = handles[i].port
                  /\ ~\E l \in i + 1 .. j - 1 :
                          /\ handles[l].event = "open"
                          /\ handles[l].port = handles[i].port }

\* C25: at every moment of connect at most one port is open: the session
\* opened to read a candidate's identity is closed before the next
\* candidate is probed and before the selected port is opened; when
\* connect returns a session its port is the only one open, and when
\* connect fails or panics none is.
C25_OneOpenHandle ==
    /\ \A k \in 0 .. Len(handles) : Cardinality(OpenAfter(k)) <= 1
    /\ pc \in {"probe", "open", "failed", "panicked"} =>
           OpenAfter(Len(handles)) = {}
    /\ pc = "connected" =>
           /\ OpenAfter(Len(handles)) = {Len(handles)}
           /\ Last(handles).port = connected.value

\* Two devices were probed, both could be opened, and the session returned
\* is on the second.
C25_Witness ==
    /\ pc = "connected"
    /\ Len(found) = 2
    /\ Len(handles) = 5
    /\ connected = Ok(PortNames[2])


\* The configured limit, a current in ampere, lies outside 0 .. 40 mA.
OutsideLimitDomain ==
    \/ FLt(cfg.current_limit, FZero)
    \/ FLt(MilliAmpere(MAX_LIMIT_MA), cfg.current_limit)

\* C26: a sweep whose configured current limit lies outside 0 .. 40 mA never
\* enables the output: nothing but SetVoltage(start) is ever written, once,
\* the sweep never gets past its setup, and once SetVoltage(start) has been
\* written the statement the sweep is at is set_current_limit, where the
\* constructor's assertion fires with nothing more written.
C26_OutOfDomainLimitNeverEnables ==
    (cfg # NoConfig /\ OutsideLimitDomain) =>
        /\ Len(port.wire) <= 1
        /\ \A k \in 1 .. Len(port.wire) :
               Line(port.wire[k]) = SetVoltageRequest(cfg.start_voltage)
        /\ pc \in {"setup", "failed", "panicked"}
        /\ recorded.kind # "Ok"
        /\ pc = "failed" => call.op = "set_voltage" /\ port.wire = <<>>
        /\ pc = "panicked" =>
               /\ call.op = "set_current_limit"
               /\ call.result.kind = "Panic"
               /\ Len(port.wire) = 1
               /\ Line(port.wire[1]) = SetVoltageRequest(cfg.start_voltage)
        /\ (pc = "setup" /\ port.wire # <<>>) =>
               /\ RecordAt("set_current_limit")
               /\ set_current_limit(port, cfg.current_limit, TRUE).port.wire
                       = port.wire
               /\ set_current_limit(port, cfg.current_limit, TRUE).result.kind
                       = "Panic"

\* A sweep with a limit of 100 mA stopped at set_current_limit, SetVoltage
\* of the start voltage being all that was written.
C26_Witness ==
    /\ cfg # NoConfig
    /\ cfg.current_limit = MilliAmpere(100)
    /\ pc = "panicked"
    /\ call.op = "set_current_limit"
    /\ Len(port.wire) = 1
    /\ Line(port.wire[1]) = SetVoltageRequest(cfg.start_voltage)
=============================================================================
